---- MODULE Spec2Model ----
(***************************************************************************)
(* Step-recording and replay engine of the algorithm visualiser:          *)
(* solvers (knapsack, LCS, heap, counting sort), the step players (grid   *)
(* Visualizer, HeapVisualizer, CountingSortVisualizer, StrassenVisualizer),*)
(* the TracebackManager and the AppController that wires them together.   *)
(*                                                                         *)
(* Encoding conventions                                                    *)
(*  - JavaScript objects are records; an object's methods are operators   *)
(*    that take the object and return the object after the call.          *)
(*  - A cell's textContent is an integer: a committed number n >= 0,       *)
(*    EMPTY for '' and QMARK for '?'.                                      *)
(*  - Characters are small integers, strings are sequences of them.       *)
(*  - A description string is a record [t |-> template, a |-> arguments]. *)
(*  - setTimeout handles are integers; the field `timeouts` of an object  *)
(*    is the set of its callbacks that the browser still has to run.      *)
(***************************************************************************)
EXTENDS Integers, Sequences, FiniteSets, TLC

(* ------------------------------ bounds -------------------------------- *)
\* number of setTimeout handles one object may have outstanding in the model
MaxTimers == 2
\* number of abandoned or running traceback walks kept in flight
MaxWalkers == 2
MaxOps == 4
\* longest input array and largest value given to the heap player
HeapMaxLen == 2
HeapMaxVal == 2
\* longest input array and largest value given to the counting-sort player
CSMaxLen == 2
CSMaxVal == 2

(* ----------------------------- encodings ------------------------------ *)
EMPTY == 0 - 1
QMARK == 0 - 2
NULL  == 0 - 3
UNDEF == 0 - 4
NaN   == 0 - 5
NOID  == 0

Desc(t, a) == [t |-> t, a |-> a]
ReadyText == Desc("Ready to start...", <<>>)
NoText == Desc("", <<>>)

Max2(a, b) == IF a > b THEN a ELSE b
Range(s) == {s[k] : k \in 1..Len(s)}

(***************************************************************************)
(* KnapsackSolver  (src/components/knapsack/solver.js)                     *)
(* dp is a function [0..n -> [0..W -> Int]], weights/values are 1-based    *)
(* sequences, so weights[row] is the source's weights[row - 1].            *)
(***************************************************************************)
GridStep(row, col, type, value, description, highlight) ==
    [row |-> row, col |-> col, type |-> type, value |-> value,
     description |-> description, highlight |-> highlight]

RC(r, c) == [r |-> r, c |-> c]

KS_resetState(s) ==
    [s EXCEPT !.dp = [i \in 0..s.itemCount |-> [w \in 0..s.capacity |-> 0]],
              !.steps = <<>>]

KnapsackSolver(capacity, weights, values) ==
    [capacity |-> capacity, weights |-> weights, values |-> values,
     itemCount |-> Len(weights), dp |-> <<>>, steps |-> <<>>]

KS_handleBaseCell(s, row, col) ==
    [s EXCEPT !.dp[row][col] = 0,
              !.steps = Append(@, GridStep(row, col, "update", 0,
                               Desc("Base case: 0 items or 0 capacity = 0 value.", <<>>),
                               <<>>))]

KS_recordInspect(s, row, col, includeVal, excludeVal, weight) ==
    [s EXCEPT !.steps = Append(@, GridStep(row, col, "inspect", QMARK,
                               Desc("Comparing: Include item vs Exclude", <<row, includeVal, excludeVal>>),
                               <<RC(row - 1, col - weight), RC(row - 1, col)>>))]

KS_recordUpdate(s, row, col, includeVal, excludeVal, weight) ==
    LET preferInclude == includeVal > excludeVal IN
    [s EXCEPT !.steps = Append(@, GridStep(row, col, "update", s.dp[row][col],
                               Desc("Set value to", <<s.dp[row][col]>>),
                               IF preferInclude THEN <<RC(row - 1, col - weight)>>
                                                ELSE <<RC(row - 1, col)>>))]

\* _recordExclude without its 'inspect' step
KS_recordExcludeUpdateOnly(s, row, col, weight) ==
    LET s2 == [s EXCEPT !.dp[row][col] = s.dp[row - 1][col]]
    IN [s2 EXCEPT !.steps = Append(@, GridStep(row, col, "update", s2.dp[row][col],
                               Desc("Value copied from above:", <<s2.dp[row][col]>>),
                               <<RC(row - 1, col)>>))]

KS_recordExclude(s, row, col, weight) ==
    LET s1 == [s EXCEPT !.steps = Append(@, GridStep(row, col, "inspect", QMARK,
                               Desc("Item (Weight) > Capacity. Excluding.", <<row, weight, col>>),
                               <<RC(row - 1, col)>>))]
        s2 == [s1 EXCEPT !.dp[row][col] = s1.dp[row - 1][col]]
    IN [s2 EXCEPT !.steps = Append(@, GridStep(row, col, "update", s2.dp[row][col],
                               Desc("Value copied from above:", <<s2.dp[row][col]>>),
                               <<RC(row - 1, col)>>))]

KS_handleDecisionCell(s, row, col) ==
    LET currentWeight == s.weights[row]
        currentValue == s.values[row]
    IN IF currentWeight > col
       THEN KS_recordExclude(s, row, col, currentWeight)
       ELSE LET includeVal == currentValue + s.dp[row - 1][col - currentWeight]
                excludeVal == s.dp[row - 1][col]
                s1 == KS_recordInspect(s, row, col, includeVal, excludeVal, currentWeight)
                s2 == [s1 EXCEPT !.dp[row][col] = Max2(includeVal, excludeVal)]
            IN KS_recordUpdate(s2, row, col, includeVal, excludeVal, currentWeight)

\* the two nested loops of _buildTable, k enumerating the cells row by row
RECURSIVE KS_buildTable(_, _)
KS_buildTable(s, k) ==
    LET cols == s.capacity + 1
        i == k \div cols
        w == k % cols
    IN IF k >= (s.itemCount + 1) * cols THEN s
       ELSE KS_buildTable(IF i = 0 \/ w = 0 THEN KS_handleBaseCell(s, i, w)
                                            ELSE KS_handleDecisionCell(s, i, w),
                          k + 1)

\* Array(this.capacity + 1) of _resetState: a negative length is a RangeError
KS_throws(s) == s.capacity + 1 < 0

KS_solve(s) ==
    LET r == KS_buildTable(KS_resetState(s), 0) IN [dp |-> r.dp, steps |-> r.steps]

(***************************************************************************)
(* LCSSolver  (src/components/lcs/solver.js)                               *)
(***************************************************************************)
LCSSolver(str1, str2) ==
    [str1 |-> str1, str2 |-> str2, rows |-> Len(str1), cols |-> Len(str2),
     dp |-> <<>>, steps |-> <<>>]

LCS_resetState(s) ==
    [s EXCEPT !.dp = [i \in 0..s.rows |-> [j \in 0..s.cols |-> 0]],
              !.steps = <<>>]

LCS_handleBaseCell(s, row, col) ==
    [s EXCEPT !.dp[row][col] = 0,
              !.steps = Append(@, GridStep(row, col, "update", 0,
                               Desc("Base case: 0 length.", <<>>), <<>>))]

LCS_recordMatch(s, row, col, char1, char2) ==
    LET s1 == [s EXCEPT !.steps = Append(@, GridStep(row, col, "inspect", QMARK,
                               Desc("Match ==", <<char1, char2>>),
                               <<RC(row - 1, col - 1)>>))]
        s2 == [s1 EXCEPT !.dp[row][col] = 1 + s1.dp[row - 1][col - 1]]
    IN [s2 EXCEPT !.steps = Append(@, GridStep(row, col, "update", s2.dp[row][col],
                               Desc("Match found! Value =", <<s2.dp[row][col]>>),
                               <<RC(row - 1, col - 1)>>))]

LCS_recordMismatch(s, row, col, char1, char2) ==
    [s EXCEPT !.steps = Append(@, GridStep(row, col, "inspect", QMARK,
                               Desc("No match !=. Max of top/left.", <<char1, char2>>),
                               <<RC(row - 1, col), RC(row, col - 1)>>))]

LCS_recordMismatchResult(s, row, col) ==
    LET topVal == s.dp[row - 1][col]
        leftVal == s.dp[row][col - 1]
    IN [s EXCEPT !.steps = Append(@, GridStep(row, col, "update", s.dp[row][col],
                               Desc("Max value is", <<s.dp[row][col]>>),
                               IF topVal > leftVal THEN <<RC(row - 1, col)>>
                                                   ELSE <<RC(row, col - 1)>>))]

LCS_handleDecisionCell(s, row, col) ==
    LET char1 == s.str1[row]
        char2 == s.str2[col]
    IN IF char1 = char2
       THEN LCS_recordMatch(s, row, col, char1, char2)
       ELSE LET s1 == LCS_recordMismatch(s, row, col, char1, char2)
                s2 == [s1 EXCEPT !.dp[row][col] = Max2(s1.dp[row - 1][col], s1.dp[row][col - 1])]
            IN LCS_recordMismatchResult(s2, row, col)

RECURSIVE LCS_buildTable(_, _)
LCS_buildTable(s, k) ==
    LET cols == s.cols + 1
        i == k \div cols
        j == k % cols
    IN IF k >= (s.rows + 1) * cols THEN s
       ELSE LCS_buildTable(IF i = 0 \/ j = 0 THEN LCS_handleBaseCell(s, i, j)
                                             ELSE LCS_handleDecisionCell(s, i, j),
                           k + 1)

LCS_solve(s) ==
    LET r == LCS_buildTable(LCS_resetState(s), 0) IN [dp |-> r.dp, steps |-> r.steps]

(***************************************************************************)
(* Timers.  setTimeout returns a handle that no live timer and no stored   *)
(* handle of the object carries; clearTimeout removes the callback.        *)
(***************************************************************************)
TimerIds == 1..(MaxTimers + 1)

FreshId(o) ==
    CHOOSE id \in TimerIds :
        /\ id \notin o.timeouts
        /\ id # o.animationId
        /\ \A other \in TimerIds :
              (other \notin o.timeouts /\ other # o.animationId) => id <= other

SetTimeout(o) ==
    LET id == FreshId(o) IN
    [o EXCEPT !.timeouts = @ \cup {id}, !.animationId = id]

ClearTimeout(o, id) == [o EXCEPT !.timeouts = @ \ {id}]

\* the browser takes the callback `id` off its queue before running it
Expire(o, id) == [o EXCEPT !.timeouts = @ \ {id}]

CanSchedule(o) == Cardinality(o.timeouts) < MaxTimers

(***************************************************************************)
(* Visualizer, the grid player  (src/unnamed/part_003)                     *)
(* cells maps <<row, col>> to the cell's textContent; hl and target are    *)
(* the cells carrying the classes 'highlight' and 'target', tbCurrent,     *)
(* tbVisited and tbPath those carrying 'traceback-current', '-visited' and *)
(* '-path'.  ran lists the                                                 *)
(* step indices the running handler has executed, error tells that the     *)
(* handler ended in an uncaught TypeError.                                 *)
(***************************************************************************)
Visualizer ==
    [cells |-> <<>>, interactive |-> FALSE, hl |-> {}, target |-> {},
     tbCurrent |-> {}, tbVisited |-> {}, tbPath |-> {}, marks |-> {},
     explanation |-> NoText,
     animationId |-> NOID, timeouts |-> {},
     currentStepIndex |-> 0, steps |-> <<>>, isPlaying |-> FALSE, speed |-> 500,
     ran |-> <<>>, error |-> FALSE]

V_renderGrid(v, rows, cols, isInteractive) ==
    [v EXCEPT !.cells = [rc \in (0..rows - 1) \X (0..cols - 1) |-> EMPTY],
              !.hl = {}, !.target = {}, !.interactive = isInteractive,
              !.tbCurrent = {}, !.tbVisited = {}, !.tbPath = {}, !.marks = {}]

V_clearHighlights(v) ==
    [v EXCEPT !.hl = {}, !.target = {},
              !.cells = [rc \in DOMAIN v.cells |-> IF v.cells[rc] = QMARK THEN EMPTY ELSE v.cells[rc]]]

V_resetVisuals(v) ==
    LET v1 == V_clearHighlights(v) IN
    [v1 EXCEPT !.cells = [rc \in DOMAIN v1.cells |-> EMPTY],
               !.explanation = ReadyText]

V_pause(v) ==
    LET v1 == [v EXCEPT !.isPlaying = FALSE] IN
    IF v1.animationId # NOID
    THEN [ClearTimeout(v1, v1.animationId) EXCEPT !.animationId = NOID]
    ELSE v1

V_loadSteps(v, steps) ==
    V_resetVisuals([V_pause(v) EXCEPT !.steps = steps, !.currentStepIndex = 0])

V_highlightDependencies(v, step) ==
    [v EXCEPT !.hl = @ \cup ({<<step.highlight[k].r, step.highlight[k].c>> : k \in 1..Len(step.highlight)}
                              \cap DOMAIN v.cells)]

V_highlightTarget(v, step) ==
    IF <<step.row, step.col>> \in DOMAIN v.cells
    THEN [v EXCEPT !.target = @ \cup {<<step.row, step.col>>}]
    ELSE v

V_updateExplanation(v, text) == [v EXCEPT !.explanation = text]

V_updateCellValue(v, step) ==
    IF <<step.row, step.col>> \notin DOMAIN v.cells THEN v
    ELSE [v EXCEPT !.cells[<<step.row, step.col>>] = step.value]

\* index is the source's 0-based index, steps[index + 1] the step it names
V_executeStep(v, index) ==
    IF index < 0 \/ index >= Len(v.steps) THEN v
    ELSE LET step == v.steps[index + 1]
             v1 == V_clearHighlights(v)
             v2 == V_highlightDependencies(v1, step)
             v3 == V_highlightTarget(v2, step)
             v4 == V_updateExplanation(v3, step.description)
             v5 == V_updateCellValue(v4, step)
         IN [v5 EXCEPT !.ran = Append(@, index)]

V_animate(v) ==
    IF ~v.isPlaying THEN v
    ELSE IF v.currentStepIndex >= Len(v.steps) THEN [v EXCEPT !.isPlaying = FALSE]
    ELSE LET v1 == V_executeStep(v, v.currentStepIndex)
             v2 == [v1 EXCEPT !.currentStepIndex = @ + 1]
         IN SetTimeout(v2)

V_play(v) ==
    IF v.isPlaying THEN v
    ELSE V_animate([v EXCEPT !.isPlaying = TRUE])

\* next() that advances the cursor without comparing it to steps.length
V_nextUnbounded(v) ==
    LET v1 == V_pause(v)
        v2 == V_executeStep(v1, v1.currentStepIndex)
    IN [v2 EXCEPT !.currentStepIndex = @ + 1]

V_next(v) ==
    LET v1 == V_pause(v)
        v2 == V_executeStep(v1, v1.currentStepIndex)
    IN IF v2.currentStepIndex < Len(v2.steps)
       THEN [v2 EXCEPT !.currentStepIndex = @ + 1]
       ELSE v2

\* prev() that leaves the text of the cell whose update it steps back over
V_prevKeepsValue(v) ==
    LET v1 == V_pause(v) IN
    IF v1.currentStepIndex > 0
    THEN V_clearHighlights([v1 EXCEPT !.currentStepIndex = @ - 1])
    ELSE v1

V_prev(v) ==
    LET v1 == V_pause(v) IN
    IF v1.currentStepIndex > 0
    THEN LET v2 == [v1 EXCEPT !.currentStepIndex = @ - 1]
             step == v2.steps[v2.currentStepIndex + 1]
         IN IF step.type = "update"
            THEN IF <<step.row, step.col>> \in DOMAIN v2.cells
                 THEN V_clearHighlights([v2 EXCEPT !.cells[<<step.row, step.col>>] = EMPTY,
                                                    !.target = @ \ {<<step.row, step.col>>}])
                 ELSE [v2 EXCEPT !.error = TRUE]
            ELSE V_clearHighlights(v2)
    ELSE v1

V_setSpeed(v, ms) == [v EXCEPT !.speed = ms]

\* the timer callback () => this._animate()
V_timeout(v, id) == V_animate(Expire(v, id))

(***************************************************************************)
(* HeapSolver  (src/components/heap/solver.js)                             *)
(* Arrays are sequences; indices in steps and parameters are the source's  *)
(* 0-based indices, At(a, i) reads a[i] and yields UNDEF out of range.     *)
(***************************************************************************)
At(a, i) == IF i + 1 \in DOMAIN a THEN a[i + 1] ELSE UNDEF

SwapAt(a, i, j) == [a EXCEPT ![i + 1] = a[j + 1], ![j + 1] = a[i + 1]]

HeapStep(type, array, description, stats) ==
    [type |-> type, array |-> array, description |-> description, stats |-> stats,
     highlightIndex |-> UNDEF, compareIndices |-> <<>>, swapIndices |-> <<>>,
     from |-> UNDEF, to |-> UNDEF, fromValue |-> UNDEF, toValue |-> UNDEF,
     extractedValue |-> UNDEF]

HeapSolver(array, operation) ==
    [originalArray |-> array, array |-> array, steps |-> <<>>,
     heapifyCalls |-> 0, swapCount |-> 0, recursiveCalls |-> 0, operation |-> operation]

H_stats(s) ==
    [heapifyCalls |-> s.heapifyCalls, swapCount |-> s.swapCount,
     recursiveCalls |-> s.recursiveCalls]

H_push(s, step) == [s EXCEPT !.steps = Append(@, step)]

\* _resetState that only restores the array
H_resetStateArrayOnly(s) == [s EXCEPT !.array = s.originalArray]

H_resetState(s) ==
    [s EXCEPT !.steps = <<>>, !.heapifyCalls = 0, !.swapCount = 0,
              !.recursiveCalls = 0, !.array = s.originalArray]

H_recordInit(s) ==
    H_push(s, HeapStep("init", s.array, Desc("Starting Build-Max-Heap on array:", s.array), H_stats(s)))

H_recordInfo(s, startIndex) ==
    H_push(s, [HeapStep("info", s.array, Desc("Last non-leaf node is at index", <<startIndex>>), H_stats(s))
               EXCEPT !.highlightIndex = startIndex])

H_recordLoopStart(s, loopIndex) ==
    H_push(s, [HeapStep("loop-start", s.array,
                        Desc("Loop iteration: Calling Max-Heapify on index", <<loopIndex, At(s.array, loopIndex)>>),
                        H_stats(s))
               EXCEPT !.highlightIndex = loopIndex])

H_recordLoopEnd(s, loopIndex) ==
    H_push(s, HeapStep("loop-end", s.array,
                       Desc("Completed heapify for subtree rooted at index", <<loopIndex>> \o s.array),
                       H_stats(s)))

H_recordComplete(s) ==
    H_push(s, HeapStep("complete", s.array, Desc("Build-Max-Heap complete! Final heap:", s.array), H_stats(s)))

H_recordHeapifyStart(s, i, left, right, depth) ==
    H_push(s, [HeapStep("heapify-start", s.array,
                        Desc("Heapify: Comparing node with children", <<depth, i, At(s.array, i)>>),
                        H_stats(s))
               EXCEPT !.highlightIndex = i,
                      !.compareIndices = (IF left < Len(s.array) THEN <<left>> ELSE <<>>)
                                         \o (IF right < Len(s.array) THEN <<right>> ELSE <<>>)])

H_recordCompare(s, label, index, childIndex, depth) ==
    H_push(s, [HeapStep("compare", s.array,
                        Desc(label, <<depth, At(s.array, childIndex), At(s.array, index)>>),
                        H_stats(s))
               EXCEPT !.highlightIndex = childIndex])

\* one of the two comparisons of _pickLargestChild; c is the solver and the
\* candidate so far
H_pickChild(c, label, i, child, heapSize, depth) ==
    IF child < heapSize /\ At(c.s.array, child) > At(c.s.array, c.candidate)
    THEN [s |-> H_recordCompare(c.s, label, i, child, depth), candidate |-> child]
    ELSE c

\* _pickLargestChild that looks at the left child only
H_pickLeftChild(s, i, left, right, heapSize, largest, depth) ==
    H_pickChild([s |-> s, candidate |-> largest],
                "Left child > current largest", i, left, heapSize, depth)

\* returns the solver after the compare steps and the chosen index
H_pickLargestChild(s, i, left, right, heapSize, largest, depth) ==
    H_pickChild(H_pickChild([s |-> s, candidate |-> largest],
                            "Left child > current largest", i, left, heapSize, depth),
                "Right child > current largest", i, right, heapSize, depth)

H_recordSwap(s, i, largest, depth) ==
    H_push(s, [HeapStep("swap", s.array,
                        Desc("Swapping:", <<depth, At(s.array, i), i, At(s.array, largest), largest>>),
                        H_stats(s))
               EXCEPT !.from = i, !.to = largest,
                      !.fromValue = At(s.array, i), !.toValue = At(s.array, largest),
                      !.swapIndices = <<i, largest>>])

H_recordAfterSwap(s, largest, depth) ==
    H_push(s, [HeapStep("after-swap", s.array, Desc("After swap:", <<depth>> \o s.array), H_stats(s))
               EXCEPT !.highlightIndex = largest])

H_recordRecurse(s, fromIndex, toIndex, depth) ==
    H_push(s, [HeapStep("recurse", s.array,
                        Desc("Recursively calling Heapify on index", <<depth, toIndex>>), H_stats(s))
               EXCEPT !.highlightIndex = toIndex])

H_recordNoSwap(s, index, depth) ==
    H_push(s, [HeapStep("no-swap", s.array,
                        Desc("Node satisfies heap property. No swap needed.", <<depth, index, At(s.array, index)>>),
                        H_stats(s))
               EXCEPT !.highlightIndex = index])

\* an exchange that only copies the child into the parent
H_swapCopies(s, i, largest) ==
    [s EXCEPT !.array = [@ EXCEPT ![i + 1] = s.array[largest + 1]], !.swapCount = @ + 1]

\* this.swapCount++ and the exchange of _swapAndRecurse
H_swap(s, i, largest) == [s EXCEPT !.array = SwapAt(@, i, largest), !.swapCount = @ + 1]

\* the counters with recursiveCalls holding the depth of the call
H_countCallAtDepth(s, depth) ==
    [s EXCEPT !.heapifyCalls = @ + 1, !.recursiveCalls = depth]

\* this.heapifyCalls++; if (depth > 0) this.recursiveCalls++
H_countCall(s, depth) ==
    [s EXCEPT !.heapifyCalls = @ + 1, !.recursiveCalls = IF depth > 0 THEN @ + 1 ELSE @]

\* _heapifyNode and _swapAndRecurse call each other
RECURSIVE H_heapifyNode(_, _, _, _)
H_swapAndRecurse(s, i, largest, heapSize, depth) ==
    H_heapifyNode(H_recordRecurse(H_recordAfterSwap(H_swap(H_recordSwap(s, i, largest, depth),
                                                           i, largest),
                                                    largest, depth),
                                  i, largest, depth),
                  largest, heapSize, depth + 1)

\* the branch of _heapifyNode on the child picked
H_settle(pick, i, heapSize, depth) ==
    IF pick.candidate # i
    THEN H_swapAndRecurse(pick.s, i, pick.candidate, heapSize, depth)
    ELSE H_recordNoSwap(pick.s, i, depth)

H_heapifyNode(s, i, heapSize, depth) ==
    H_settle(H_pickLargestChild(H_recordHeapifyStart(H_countCall(s, depth), i, 2 * i + 1,
                                                     2 * i + 2, depth),
                                i, 2 * i + 1, 2 * i + 2, heapSize, i, depth),
             i, heapSize, depth)

\* for (let i = startIndex; i >= 0; i--) of buildMaxHeap
RECURSIVE H_buildLoop(_, _)
H_buildLoop(s, i) ==
    IF i < 0 THEN s
    ELSE H_buildLoop(H_recordLoopEnd(H_heapifyNode(H_recordLoopStart(s, i), i, Len(s.array), 0), i), i - 1)

\* for (let i = startIndex; i >= 0; i--) of extractMax and insertElement
RECURSIVE H_preBuildLoop(_, _)
H_preBuildLoop(s, i) ==
    IF i < 0 THEN s
    ELSE H_preBuildLoop(H_heapifyNode(s, i, Len(s.array), 0), i - 1)

H_result(s, extractedValue) ==
    [heap |-> s.array, steps |-> s.steps, stats |-> H_stats(s),
     extractedValue |-> extractedValue]

\* (Len \div 2) - 1, the last non-leaf node
H_startIndex(s) == (Len(s.array) \div 2) - 1

H_buildMaxHeap(s) ==
    LET Info(t) == H_recordInfo(t, H_startIndex(t))
        Loop(t) == H_buildLoop(t, H_startIndex(t))
    IN H_result(H_recordComplete(Loop(Info(H_recordInit(H_resetState(s))))), UNDEF)

\* a step with the solver's array and counters, highlightIndex as given
H_note(s, type, description, highlightIndex) ==
    H_push(s, [HeapStep(type, s.array, description, H_stats(s))
               EXCEPT !.highlightIndex = highlightIndex])

\* extractMax without its test for the empty heap
H_extractMaxUnguarded(s) ==
    LET Built(t) == H_note(t, "pre-extract-complete",
                           Desc("Max-heap built. Now extracting maximum.", t.array), UNDEF)
        Begun(t) == H_note(t, "extract-init", Desc("Extracting maximum value:", <<At(t.array, 0)>>), 0)
        Pop(t) == [t EXCEPT !.array = IF Len(t.array) = 0 THEN <<>>
                                      ELSE SubSeq([t.array EXCEPT ![1] = t.array[Len(t.array)]],
                                                  1, Len(t.array) - 1)]
        Moved(t) == H_note(t, "extract-swap-root",
                           Desc("Moved last element to root. Heap size:",
                                <<At(t.array, 0), Len(t.array)>>), 0)
        Down(t) == IF Len(t.array) > 0 THEN H_heapifyNode(t, 0, Len(t.array), 0) ELSE t
        Done(t, max) == H_push(t, [HeapStep("extract-complete", t.array,
                                            Desc("Extract complete! Removed / Final heap:",
                                                 <<max>> \o t.array),
                                            H_stats(t))
                                   EXCEPT !.extractedValue = max])
        Extract(t) == H_result(Done(Down(Moved(Pop(Begun(t)))), At(t.array, 0)), At(t.array, 0))
    IN Extract(Built(H_preBuildLoop(H_resetState(s), H_startIndex(s))))

H_extractMax(s) ==
    LET Start(t) == H_note(t, "pre-extract-build",
                           Desc("Building max-heap before extraction. Starting array:", t.array),
                           UNDEF)
        Build(t) == H_preBuildLoop(t, H_startIndex(t))
        Built(t) == H_note(t, "pre-extract-complete",
                           Desc("Max-heap built. Now extracting maximum.", t.array), UNDEF)
        Empty(t) == H_note(t, "error", Desc("Cannot extract from empty heap!", <<>>), UNDEF)
        Begun(t) == H_note(t, "extract-init", Desc("Extracting maximum value:", <<At(t.array, 0)>>), 0)
        \* this.array[0] = this.array[length - 1]; this.array.pop()
        Pop(t) == [t EXCEPT !.array = SubSeq([t.array EXCEPT ![1] = t.array[Len(t.array)]],
                                             1, Len(t.array) - 1)]
        Moved(t) == H_note(t, "extract-swap-root",
                           Desc("Moved last element to root. Heap size:",
                                <<At(t.array, 0), Len(t.array)>>), 0)
        Down(t) == IF Len(t.array) > 0
                   THEN H_heapifyNode(
                            H_note(t, "extract-heapify-start",
                                   Desc("Starting heapify-down from root to restore heap property", <<>>),
                                   0),
                            0, Len(t.array), 0)
                   ELSE t
        Done(t, max) == H_push(t, [HeapStep("extract-complete", t.array,
                                            Desc("Extract complete! Removed / Final heap:",
                                                 <<max>> \o t.array),
                                            H_stats(t))
                                   EXCEPT !.extractedValue = max])
        Extract(t) == IF Len(t.array) = 0 THEN H_result(Empty(t), NULL)
                      ELSE H_result(Done(Down(Moved(Pop(Begun(t)))), At(t.array, 0)), At(t.array, 0))
    IN Extract(Built(Build(Start(H_resetState(s)))))

\* the swap of _bubbleUp and the two steps around it
H_bubbleSwap(s, index, parentIndex) ==
    LET Swap(t) == H_push(t, [HeapStep("bubble-swap", t.array,
                                       Desc("Child > Parent. Swapping indices",
                                            <<At(t.array, index), At(t.array, parentIndex), index,
                                              parentIndex>>),
                                       H_stats(t))
                              EXCEPT !.from = index, !.to = parentIndex,
                                     !.fromValue = At(t.array, index),
                                     !.toValue = At(t.array, parentIndex),
                                     !.swapIndices = <<index, parentIndex>>])
        After(t) == H_note(t, "bubble-after-swap", Desc("After swap:", t.array), parentIndex)
    IN After(H_swap(Swap(s), index, parentIndex))

\* the comparison step of _bubbleUp
H_bubbleCompare(s, index, parentIndex) ==
    H_push(s, [HeapStep("bubble-compare", s.array,
                        Desc("Comparing child with parent",
                             <<At(s.array, index), index, At(s.array, parentIndex), parentIndex>>),
                        H_stats(s))
               EXCEPT !.highlightIndex = index, !.compareIndices = <<parentIndex>>])

RECURSIVE H_bubbleUp(_, _)
\* _bubbleUp after its comparison step
H_bubbleDecide(s, index, parentIndex) ==
    IF At(s.array, index) > At(s.array, parentIndex)
    THEN H_bubbleUp(H_bubbleSwap(s, index, parentIndex), parentIndex)
    ELSE H_note(s, "bubble-complete",
                Desc("Child <= Parent. Heap property satisfied.",
                     <<At(s.array, index), At(s.array, parentIndex)>>), index)

H_bubbleUp(s, index) ==
    IF index = 0
    THEN H_note(s, "bubble-complete", Desc("Element is at root. Bubble-up complete.", <<>>), index)
    ELSE H_bubbleDecide(H_bubbleCompare(s, index, (index - 1) \div 2), index, (index - 1) \div 2)

H_insertElement(s, value) ==
    LET Start(t) == H_note(t, "pre-insert-build",
                           Desc("Building max-heap before insertion. Starting array:", t.array),
                           UNDEF)
        Build(t) == H_preBuildLoop(t, H_startIndex(t))
        Built(t) == H_note(t, "pre-insert-complete",
                           Desc("Max-heap built. Now inserting", t.array \o <<value>>), UNDEF)
        Begun(t) == H_note(t, "insert-init", Desc("Inserting new value:", <<value>>), UNDEF)
        Push(t) == [t EXCEPT !.array = Append(@, value)]
        Added(t) == H_note(t, "insert-add",
                           Desc("Added at index (end of array)", <<value, Len(t.array) - 1>>),
                           Len(t.array) - 1)
        Up(t) == H_bubbleUp(t, Len(t.array) - 1)
        Done(t) == H_note(t, "insert-complete", Desc("Insert complete! Final heap:", t.array), UNDEF)
    IN H_result(Done(Up(Added(Push(Begun(Built(Build(Start(H_resetState(s))))))))), UNDEF)

(***************************************************************************)
(* HeapVisualizer, the heap player  (src/components/heap/visualizer.js)    *)
(* array is this.array, dom the values shown by the rendered cells, hl the *)
(* set of <<index, class>> highlights on rendered nodes, status the status *)
(* element's text, statsShown the three counters on screen.                *)
(***************************************************************************)
ZeroHeapStats == [heapifyCalls |-> 0, swapCount |-> 0, recursiveCalls |-> 0]

HeapVisualizer ==
    [array |-> <<>>, dom |-> <<>>, hl |-> {}, status |-> NoText, statsShown |-> ZeroHeapStats,
     steps |-> <<>>, currentStepIndex |-> 0, isPlaying |-> FALSE,
     animationId |-> NOID, timeouts |-> {}, speed |-> 500,
     ran |-> <<>>]

HV_render(v) == [v EXCEPT !.dom = v.array, !.hl = {}]

HV_renderHeap(v, array) == HV_render([v EXCEPT !.array = array])

HV_clearHighlights(v) == [v EXCEPT !.hl = {}]

HV_pause(v) ==
    LET v1 == [v EXCEPT !.isPlaying = FALSE] IN
    IF v1.animationId # NOID
    THEN [ClearTimeout(v1, v1.animationId) EXCEPT !.animationId = NOID]
    ELSE v1

HV_loadSteps(v, steps) ==
    HV_clearHighlights([HV_pause(v) EXCEPT !.steps = steps, !.currentStepIndex = 0])

HV_updateArrayDisplay(v) ==
    IF Len(v.dom) # Len(v.array) THEN HV_render(v)
    ELSE [v EXCEPT !.dom = v.array]

HV_highlightNode(v, index, type) ==
    IF index >= 0 /\ index < Len(v.dom) THEN [v EXCEPT !.hl = @ \cup {<<index, type>>}] ELSE v

RECURSIVE HV_highlightAll(_, _, _)
HV_highlightAll(v, indices, type) ==
    IF indices = <<>> THEN v
    ELSE HV_highlightAll(HV_highlightNode(v, Head(indices), type), Tail(indices), type)

HV_applyHighlights(v, step) ==
    LET v1 == IF step.highlightIndex # UNDEF THEN HV_highlightNode(v, step.highlightIndex, "current") ELSE v
        v2 == HV_highlightAll(v1, step.compareIndices, "compare")
    IN HV_highlightAll(v2, step.swapIndices, "swap")

HV_updateStats(v, stats) == [v EXCEPT !.statsShown = stats]

HV_executeStep(v, index) ==
    IF index < 0 \/ index >= Len(v.steps) THEN v
    ELSE LET step == v.steps[index + 1]
             v1 == HV_clearHighlights(v)
             prevLength == Len(v1.array)
             v2 == [v1 EXCEPT !.array = step.array]
             v3 == IF Len(v2.array) # prevLength THEN HV_render(v2) ELSE HV_updateArrayDisplay(v2)
             v4 == HV_applyHighlights(v3, step)
             v5 == [v4 EXCEPT !.status = step.description]
         IN [HV_updateStats(v5, step.stats) EXCEPT !.ran = Append(@, index)]

\* the loop for (let i = 0; i <= targetIndex; i++) of _replayToStep
RECURSIVE HV_replayLoop(_, _, _)
HV_replayLoop(v, i, targetIndex) ==
    IF i > targetIndex THEN v
    ELSE HV_replayLoop(IF v.steps[i + 1].type = "after-swap"
                       THEN [v EXCEPT !.array = v.steps[i + 1].array] ELSE v,
                       i + 1, targetIndex)

HV_replayToStep(v, targetIndex) ==
    IF Len(v.steps) = 0 THEN v
    ELSE LET v1 == [v EXCEPT !.array = v.steps[1].array]
             v2 == HV_replayLoop(v1, 0, targetIndex)
             v3 == HV_updateArrayDisplay(v2)
             step == v3.steps[targetIndex + 1]
         IN HV_updateStats([v3 EXCEPT !.status = step.description], step.stats)

HV_animate(v) ==
    IF ~v.isPlaying THEN v
    ELSE IF v.currentStepIndex >= Len(v.steps) THEN [v EXCEPT !.isPlaying = FALSE]
    ELSE SetTimeout([HV_executeStep(v, v.currentStepIndex) EXCEPT !.currentStepIndex = @ + 1])

\* play() without the isPlaying guard
HV_playUnguarded(v) == HV_animate([v EXCEPT !.isPlaying = TRUE])

HV_play(v) ==
    IF v.isPlaying THEN v
    ELSE HV_animate([v EXCEPT !.isPlaying = TRUE])

HV_next(v) ==
    LET v1 == HV_pause(v) IN
    IF v1.currentStepIndex < Len(v1.steps)
    THEN [HV_executeStep(v1, v1.currentStepIndex) EXCEPT !.currentStepIndex = @ + 1]
    ELSE v1

\* prev() that steps back without comparing the cursor to 0
HV_prevUnguarded(v) ==
    LET v1 == HV_pause(v)
        v2 == [v1 EXCEPT !.currentStepIndex = @ - 1]
    IN HV_replayToStep(v2, v2.currentStepIndex)

HV_prev(v) ==
    LET v1 == HV_pause(v) IN
    IF v1.currentStepIndex > 0
    THEN LET v2 == [v1 EXCEPT !.currentStepIndex = @ - 1]
         IN HV_replayToStep(v2, v2.currentStepIndex)
    ELSE v1

HV_setSpeed(v, ms) == [v EXCEPT !.speed = ms]

HV_resetVisuals(v) == [HV_clearHighlights(v) EXCEPT !.status = ReadyText]

HV_timeout(v, id) == HV_animate(Expire(v, id))

(***************************************************************************)
(* CountingSortSolver  (src/unnamed/part_004, lines 70-370)                *)
(* An unfilled output slot (null) is NULL.                                 *)
(***************************************************************************)
ZeroCSStats == [comparisons |-> 0, arrayAccesses |-> 0, countUpdates |-> 0, placements |-> 0]

SetAt(a, i, x) == [a EXCEPT ![i + 1] = x]

CSStep(type, phase, s, description) ==
    [type |-> type, phase |-> phase, description |-> description,
     inputArray |-> s.array, countArray |-> s.countArray, outputArray |-> s.outputArray,
     stats |-> s.stats,
     highlightInputIndex |-> UNDEF, highlightMaxIndex |-> UNDEF,
     highlightCountIndex |-> UNDEF, highlightPrevCountIndex |-> UNDEF,
     highlightOutputIndex |-> UNDEF,
     inputIndex |-> UNDEF, value |-> UNDEF, outputPosition |-> UNDEF,
     countBefore |-> UNDEF, countAfter |-> UNDEF]

CountingSortSolver(array) ==
    [originalArray |-> array, array |-> array, steps |-> <<>>,
     countArray |-> <<>>, outputArray |-> <<>>, maxValue |-> 0, stats |-> ZeroCSStats]

CS_push(s, step) == [s EXCEPT !.steps = Append(@, step)]

CS_resetState(s) ==
    [s EXCEPT !.steps = <<>>, !.countArray = <<>>, !.outputArray = <<>>,
              !.stats = ZeroCSStats, !.array = s.originalArray]

\* for (let i = 0; i < this.array.length; i++) of _findMaximum; m is maxIndex
RECURSIVE CS_findMaxLoop(_, _, _)
CS_findMaxLoop(s, i, m) ==
    IF i >= Len(s.array) THEN s
    ELSE LET s1 == [s EXCEPT !.stats.arrayAccesses = @ + 1, !.stats.comparisons = @ + 1]
             isNewMax == At(s1.array, i) > s1.maxValue
             \* the find-max steps record empty count and output arrays
             s2 == CS_push(s1, [CSStep("find-max", "find-max", s1,
                                       Desc(IF isNewMax THEN "Checking > current max: new maximum found"
                                                        ELSE "Checking <= current max: no change",
                                            <<i, At(s1.array, i), s1.maxValue>>))
                                EXCEPT !.countArray = <<>>, !.outputArray = <<>>,
                                       !.highlightInputIndex = i, !.highlightMaxIndex = m])
         IN IF isNewMax
            THEN CS_findMaxLoop([s2 EXCEPT !.maxValue = At(s2.array, i)], i + 1, i)
            ELSE CS_findMaxLoop(s2, i + 1, m)

CS_findMaximum(s) ==
    LET s1 == CS_push(s, [CSStep("phase-start", "find-max", s, Desc("Phase 0: Find Maximum Value", <<>>))
                          EXCEPT !.countArray = <<>>, !.outputArray = <<>>])
        \* this.array[0] || 0
        s2 == [s1 EXCEPT !.maxValue = IF Len(s1.array) = 0 THEN 0 ELSE At(s1.array, 0)]
        s3 == CS_findMaxLoop(s2, 0, 0)
    IN CS_push(s3, [CSStep("find-max-complete", "find-max", s3, Desc("Maximum value found:", <<s3.maxValue>>))
                    EXCEPT !.countArray = <<>>, !.outputArray = <<>>])

CS_initializeCountArray(s) ==
    LET s1 == [s EXCEPT !.countArray = [k \in 1..(s.maxValue + 1) |-> 0],
                        !.outputArray = [k \in 1..Len(s.array) |-> NULL]]
    IN CS_push(s1, CSStep("phase-start", "count", s1, Desc("Phase 1: Count Occurrences", <<>>)))

RECURSIVE CS_countLoop(_, _)
CS_countLoop(s, i) ==
    IF i >= Len(s.array) THEN s
    ELSE LET value == At(s.array, i)
             oldCount == At(s.countArray, value)
             s1 == [s EXCEPT !.countArray = SetAt(@, value, oldCount + 1),
                             !.stats.arrayAccesses = @ + 1, !.stats.countUpdates = @ + 1]
         IN CS_countLoop(
                CS_push(s1, [CSStep("count", "count", s1,
                                    Desc("count[array[i]]++", <<i, value, oldCount, At(s1.countArray, value)>>))
                             EXCEPT !.inputIndex = i, !.value = value,
                                    !.highlightInputIndex = i, !.highlightCountIndex = value]),
                i + 1)

CS_countOccurrences(s) ==
    LET s1 == CS_countLoop(s, 0)
    IN CS_push(s1, CSStep("count-complete", "count", s1, Desc("Counting complete", s1.countArray)))

RECURSIVE CS_cumulativeLoop(_, _)
CS_cumulativeLoop(s, i) ==
    IF i > s.maxValue THEN s
    ELSE LET oldValue == At(s.countArray, i)
             previousValue == At(s.countArray, i - 1)
             s1 == [s EXCEPT !.countArray = SetAt(@, i, oldValue + previousValue),
                             !.stats.countUpdates = @ + 1]
         IN CS_cumulativeLoop(
                CS_push(s1, [CSStep("cumulative", "cumulative", s1,
                                    Desc("count[i] = count[i] + count[i-1]",
                                         <<i, oldValue, previousValue, At(s1.countArray, i)>>))
                             EXCEPT !.highlightCountIndex = i, !.highlightPrevCountIndex = i - 1]),
                i + 1)

\* the cumulative phase with a loop that starts at 2
CS_calculateCumulativeCountsFromTwo(s) ==
    LET s1 == CS_push(s, CSStep("phase-start", "cumulative", s, Desc("Phase 2: Calculate Cumulative Counts", <<>>)))
        s2 == CS_cumulativeLoop(s1, 2)
    IN CS_push(s2, CSStep("cumulative-complete", "cumulative", s2, Desc("Cumulative counts complete", s2.countArray)))

CS_calculateCumulativeCounts(s) ==
    LET s1 == CS_push(s, CSStep("phase-start", "cumulative", s, Desc("Phase 2: Calculate Cumulative Counts", <<>>)))
        s2 == CS_cumulativeLoop(s1, 1)
    IN CS_push(s2, CSStep("cumulative-complete", "cumulative", s2, Desc("Cumulative counts complete", s2.countArray)))

\* for (let i = this.array.length - 1; i >= 0; i--) of _buildOutputArray
RECURSIVE CS_outputLoop(_, _)
CS_outputLoop(s, i) ==
    IF i < 0 THEN s
    ELSE LET value == At(s.array, i)
             countBefore == At(s.countArray, value)
             position == countBefore - 1
             s1 == [s EXCEPT !.outputArray = SetAt(@, position, value),
                             !.countArray = SetAt(@, value, countBefore - 1),
                             !.stats.arrayAccesses = @ + 2, !.stats.placements = @ + 1]
             countAfter == At(s1.countArray, value)
         IN CS_outputLoop(
                CS_push(s1, [CSStep("output", "output", s1,
                                    Desc("output[count[value] - 1] = value", <<i, value, position, countBefore, countAfter>>))
                             EXCEPT !.inputIndex = i, !.value = value, !.outputPosition = position,
                                    !.countBefore = countBefore, !.countAfter = countAfter,
                                    !.highlightInputIndex = i, !.highlightCountIndex = value,
                                    !.highlightOutputIndex = position]),
                i - 1)

\* the output phase with a loop from the left to the right
RECURSIVE CS_outputLoopForward(_, _)
CS_outputLoopForward(s, i) ==
    IF i >= Len(s.array) THEN s
    ELSE LET value == At(s.array, i)
             countBefore == At(s.countArray, value)
             position == countBefore - 1
             s1 == [s EXCEPT !.outputArray = SetAt(@, position, value),
                             !.countArray = SetAt(@, value, countBefore - 1),
                             !.stats.arrayAccesses = @ + 2, !.stats.placements = @ + 1]
             countAfter == At(s1.countArray, value)
         IN CS_outputLoopForward(
                CS_push(s1, [CSStep("output", "output", s1,
                                    Desc("output[count[value] - 1] = value", <<i, value, position, countBefore, countAfter>>))
                             EXCEPT !.inputIndex = i, !.value = value, !.outputPosition = position,
                                    !.countBefore = countBefore, !.countAfter = countAfter,
                                    !.highlightInputIndex = i, !.highlightCountIndex = value,
                                    !.highlightOutputIndex = position]),
                i + 1)

CS_buildOutputArrayForward(s) ==
    LET s1 == CS_push(s, CSStep("phase-start", "output", s, Desc("Phase 3: Build Sorted Output", <<>>)))
        s2 == CS_outputLoopForward(s1, 0)
    IN CS_push(s2, CSStep("output-complete", "output", s2, Desc("Output array complete", s2.outputArray)))

CS_buildOutputArray(s) ==
    LET s1 == CS_push(s, CSStep("phase-start", "output", s, Desc("Phase 3: Build Sorted Output", <<>>)))
        s2 == CS_outputLoop(s1, Len(s1.array) - 1)
    IN CS_push(s2, CSStep("output-complete", "output", s2, Desc("Output array complete", s2.outputArray)))

CS_copyToOriginal(s) ==
    CS_push(s, CSStep("complete", "complete", s, Desc("Counting Sort Complete!", s.outputArray)))

\* the solver when solve() returns
CS_sorted(s) ==
    CS_copyToOriginal(CS_buildOutputArray(CS_calculateCumulativeCounts(
        CS_countOccurrences(CS_initializeCountArray(CS_findMaximum(CS_resetState(s)))))))

CS_solve(s) ==
    LET r == CS_sorted(s)
    IN [sortedArray |-> r.outputArray, steps |-> r.steps, stats |-> r.stats]

(***************************************************************************)
(* CountingSortVisualizer  (src/unnamed/part_004, lines 386-827)           *)
(* hl is the set of <<array, index, class>> highlights of rendered cells,  *)
(* phase the phase indicator.                                              *)
(***************************************************************************)
CountingSortVisualizer ==
    [inputArray |-> <<>>, countArray |-> <<>>, outputArray |-> <<>>,
     hl |-> {}, phase |-> "none", status |-> NoText, statsShown |-> ZeroCSStats,
     steps |-> <<>>, currentStepIndex |-> 0, isPlaying |-> FALSE,
     animationId |-> NOID, timeouts |-> {}, speed |-> 500,
     ran |-> <<>>]

CV_doRender(v) == [v EXCEPT !.hl = {}, !.phase = "Ready to Start"]

CV_render(v, inputArray, countArray, outputArray) ==
    CV_doRender([v EXCEPT !.inputArray = inputArray, !.countArray = countArray,
                          !.outputArray = outputArray])

CV_clearHighlights(v) == [v EXCEPT !.hl = {}]

CV_pause(v) ==
    LET v1 == [v EXCEPT !.isPlaying = FALSE] IN
    IF v1.animationId # NOID
    THEN [ClearTimeout(v1, v1.animationId) EXCEPT !.animationId = NOID]
    ELSE v1

\* loadSteps() that does not call pause()
CV_loadStepsNoPause(v, steps) ==
    LET v1 == [v EXCEPT !.steps = steps, !.currentStepIndex = 0] IN
    IF Len(steps) > 0
    THEN LET firstStep == steps[1]
         IN CV_clearHighlights(CV_doRender([v1 EXCEPT !.inputArray = firstStep.inputArray,
                                                      !.countArray = firstStep.countArray,
                                                      !.outputArray = firstStep.outputArray]))
    ELSE v1

CV_loadSteps(v, steps) ==
    LET v1 == [CV_pause(v) EXCEPT !.steps = steps, !.currentStepIndex = 0] IN
    IF Len(steps) > 0
    THEN LET firstStep == steps[1]
         IN CV_clearHighlights(CV_doRender([v1 EXCEPT !.inputArray = firstStep.inputArray,
                                                      !.countArray = firstStep.countArray,
                                                      !.outputArray = firstStep.outputArray]))
    ELSE v1

CV_highlightCell(v, type, index, highlightType) ==
    LET arr == CASE type = "input" -> v.inputArray
                 [] type = "count" -> v.countArray
                 [] OTHER -> v.outputArray
    IN IF index >= 0 /\ index < Len(arr)
       THEN [v EXCEPT !.hl = @ \cup {<<type, index, highlightType>>}]
       ELSE v

CV_applyHighlights(v, step) ==
    LET v1 == IF step.highlightInputIndex # UNDEF
              THEN CV_highlightCell(v, "input", step.highlightInputIndex, "current") ELSE v
        v2 == IF step.highlightMaxIndex # UNDEF /\ step.highlightMaxIndex # step.highlightInputIndex
              THEN CV_highlightCell(v1, "input", step.highlightMaxIndex, "compare") ELSE v1
        v3 == IF step.highlightCountIndex # UNDEF
              THEN CV_highlightCell(v2, "count", step.highlightCountIndex, "update") ELSE v2
        v4 == IF step.highlightPrevCountIndex # UNDEF
              THEN CV_highlightCell(v3, "count", step.highlightPrevCountIndex, "source") ELSE v3
        v5 == IF step.highlightOutputIndex # UNDEF
              THEN CV_highlightCell(v4, "output", step.highlightOutputIndex, "target") ELSE v4
    IN IF step.type = "complete"
       THEN [v5 EXCEPT !.hl = @ \cup {<<"output", k, "complete">> : k \in 0..(Len(v5.outputArray) - 1)}]
       ELSE v5

CV_updatePhaseIndicator(v, step) == [v EXCEPT !.phase = step.phase]

CV_updateStats(v, stats) == [v EXCEPT !.statsShown = stats]

CV_executeStep(v, index) ==
    IF index < 0 \/ index >= Len(v.steps) THEN v
    ELSE LET step == v.steps[index + 1]
             v1 == CV_clearHighlights(v)
             v2 == [v1 EXCEPT !.inputArray = step.inputArray, !.countArray = step.countArray,
                              !.outputArray = step.outputArray]
             v3 == CV_applyHighlights(v2, step)
             v4 == CV_updatePhaseIndicator(v3, step)
             v5 == CV_updateStats(v4, step.stats)
         IN [v5 EXCEPT !.status = step.description, !.ran = Append(@, index)]

RECURSIVE CV_replayLoop(_, _, _)
CV_replayLoop(v, i, targetIndex) ==
    IF i > targetIndex THEN v
    ELSE CV_replayLoop([v EXCEPT !.inputArray = v.steps[i + 1].inputArray,
                                 !.countArray = v.steps[i + 1].countArray,
                                 !.outputArray = v.steps[i + 1].outputArray],
                       i + 1, targetIndex)

CV_replayToStep(v, targetIndex) ==
    IF Len(v.steps) = 0 THEN v
    ELSE LET initStep == v.steps[1]
             v1 == [v EXCEPT !.inputArray = initStep.inputArray, !.countArray = <<>>,
                             !.outputArray = <<>>]
             v2 == CV_doRender(CV_replayLoop(v1, 0, targetIndex))
             step == v2.steps[targetIndex + 1]
             v3 == CV_updateStats(CV_updatePhaseIndicator(CV_applyHighlights(v2, step), step), step.stats)
         IN [v3 EXCEPT !.status = step.description]

\* _animate that takes the last step for the end of the trace
CV_animateStopsEarly(v) ==
    IF ~v.isPlaying THEN v
    ELSE IF v.currentStepIndex >= Len(v.steps) - 1 THEN [v EXCEPT !.isPlaying = FALSE]
    ELSE SetTimeout([CV_executeStep(v, v.currentStepIndex) EXCEPT !.currentStepIndex = @ + 1])

CV_animate(v) ==
    IF ~v.isPlaying THEN v
    ELSE IF v.currentStepIndex >= Len(v.steps) THEN [v EXCEPT !.isPlaying = FALSE]
    ELSE SetTimeout([CV_executeStep(v, v.currentStepIndex) EXCEPT !.currentStepIndex = @ + 1])

CV_play(v) ==
    IF v.isPlaying THEN v
    ELSE CV_animate([v EXCEPT !.isPlaying = TRUE])

\* next() that does not call pause()
CV_nextNoPause(v) ==
    IF v.currentStepIndex < Len(v.steps)
    THEN [CV_executeStep(v, v.currentStepIndex) EXCEPT !.currentStepIndex = @ + 1]
    ELSE v

CV_next(v) ==
    LET v1 == CV_pause(v) IN
    IF v1.currentStepIndex < Len(v1.steps)
    THEN [CV_executeStep(v1, v1.currentStepIndex) EXCEPT !.currentStepIndex = @ + 1]
    ELSE v1

CV_prev(v) ==
    LET v1 == CV_pause(v) IN
    IF v1.currentStepIndex > 0
    THEN LET v2 == [v1 EXCEPT !.currentStepIndex = @ - 1]
         IN CV_replayToStep(v2, v2.currentStepIndex)
    ELSE v1

CV_setSpeed(v, ms) == [v EXCEPT !.speed = ms]

CV_timeout(v, id) == CV_animate(Expire(v, id))

(***************************************************************************)
(* StrassenSolver  (src/components/strassen/solver.js)                     *)
(* Matrices are sequences of rows; a null result is <<>>.                  *)
(***************************************************************************)
ZeroSTStats == [multiplications |-> 0, additions |-> 0, recursionDepth |-> 0, maxDepth |-> 0]

STStep(type, phase, title, description, matrixA, matrixB, result, stats) ==
    [type |-> type, phase |-> phase, title |-> title, description |-> description,
     matrixA |-> matrixA, matrixB |-> matrixB, result |-> result, stats |-> stats]

StrassenSolver(matrixA, matrixB) ==
    [matrixA |-> matrixA, matrixB |-> matrixB, n |-> Len(matrixA), steps |-> <<>>,
     result |-> <<>>, stats |-> ZeroSTStats]

ST_resetState(s) == [s EXCEPT !.steps = <<>>, !.result = <<>>, !.stats = ZeroSTStats]

\* the quadrant of M of the given size that starts below row r and right of
\* column c
ST_quadrant(M, r, c, size) == [i \in 1..size |-> [j \in 1..size |-> M[r + i][c + j]]]

ST_splitMatrix(M) ==
    [m11 |-> ST_quadrant(M, 0, 0, Len(M) \div 2),
     m12 |-> ST_quadrant(M, 0, Len(M) \div 2, Len(M) \div 2),
     m21 |-> ST_quadrant(M, Len(M) \div 2, 0, Len(M) \div 2),
     m22 |-> ST_quadrant(M, Len(M) \div 2, Len(M) \div 2, Len(M) \div 2)]

ST_combineQuadrants(C11, C12, C21, C22) ==
    [i \in 1..(2 * Len(C11)) |->
        [j \in 1..(2 * Len(C11)) |->
            IF i <= Len(C11)
            THEN (IF j <= Len(C11) THEN C11[i][j] ELSE C12[i][j - Len(C11)])
            ELSE (IF j <= Len(C11) THEN C21[i - Len(C11)][j] ELSE C22[i - Len(C11)][j - Len(C11)])]]

\* the matrices _addMatrices and _subtractMatrices return; each of them also
\* adds n * n to stats.additions, which is counted where they are called
ST_addMatrices(A, B) == [i \in DOMAIN A |-> [j \in DOMAIN A |-> A[i][j] + B[i][j]]]
ST_subtractMatrices(A, B) == [i \in DOMAIN A |-> [j \in DOMAIN A |-> A[i][j] - B[i][j]]]

ST_counted(s, additions) == [s EXCEPT !.stats.additions = @ + additions]

\* the base case of _strassen
ST_baseCase(s, A, B) ==
    LET s2 == [s EXCEPT !.stats.multiplications = @ + 1]
        result == <<<<A[1][1] * B[1][1]>>>>
    IN [s2 EXCEPT !.result = result,
                  !.steps = Append(@, STStep("base-case", "multiply", "",
                                             Desc("Base case: a x b = c", <<A[1][1], B[1][1], result[1][1]>>),
                                             A, B, result, s2.stats))]

\* the seven products of _strassen2x2 with the additions each of them counts
ST_products2x2(A, B) ==
    <<[product |-> "M1", value |-> (A[1][1] + A[2][2]) * (B[1][1] + B[2][2]), additions |-> 2],
      [product |-> "M2", value |-> (A[2][1] + A[2][2]) * B[1][1], additions |-> 1],
      [product |-> "M3", value |-> A[1][1] * (B[1][2] - B[2][2]), additions |-> 1],
      [product |-> "M4", value |-> A[2][2] * (B[2][1] - B[1][1]), additions |-> 1],
      [product |-> "M5", value |-> (A[1][1] + A[1][2]) * B[2][2], additions |-> 1],
      [product |-> "M6", value |-> (A[2][1] - A[1][1]) * (B[1][1] + B[1][2]), additions |-> 2],
      [product |-> "M7", value |-> (A[1][2] - A[2][2]) * (B[2][1] + B[2][2]), additions |-> 2]>>

\* C11 = M1 + M4 + M5 + M7
ST_combine2x2Plus(M) ==
    <<<<M[1].value + M[4].value + M[5].value + M[7].value, M[3].value + M[5].value>>,
      <<M[2].value + M[4].value, M[1].value - M[2].value + M[3].value + M[6].value>>>>

\* the result quadrants of _strassen2x2
ST_combine2x2(M) ==
    <<<<M[1].value + M[4].value - M[5].value + M[7].value, M[3].value + M[5].value>>,
      <<M[2].value + M[4].value, M[1].value - M[2].value + M[3].value + M[6].value>>>>

\* the 'strassen-product' steps of _strassen2x2 from the k-th product on
RECURSIVE ST_productSteps(_, _, _)
ST_productSteps(s, M, k) ==
    IF k > Len(M) THEN s
    ELSE LET Counted(t) == [t EXCEPT !.stats.multiplications = @ + 1,
                                     !.stats.additions = @ + M[k].additions]
             Pushed(t) == [t EXCEPT !.steps = Append(@, STStep("strassen-product", "products", M[k].product,
                                                               Desc("Mk =", <<M[k].value>>),
                                                               <<>>, <<>>, <<>>, t.stats))]
         IN ST_productSteps(Pushed(Counted(s)), M, k + 1)

ST_strassen2x2(s, A, B) ==
    LET Started(t) == [t EXCEPT !.steps = Append(@, STStep("strassen-2x2-start", "products", "Strassen 2x2",
                                                           Desc("Computing 7 Strassen products for 2x2 matrices.", <<>>),
                                                           A, B, <<>>, t.stats))]
        Combined(t, result) ==
            [t EXCEPT !.result = result,
                      !.steps = Append(@, STStep("strassen-2x2-combine", "combine", "Combining Products",
                                                 Desc("Computing result from 7 products:", <<>>),
                                                 <<>>, <<>>, result, t.stats))]
    IN Combined(ST_counted(ST_productSteps(Started(s), ST_products2x2(A, B), 1), 8),
                ST_combine2x2(ST_products2x2(A, B)))

\* _strassen; returns the solver with the product in .result
RECURSIVE ST_strassen(_, _, _, _)

\* a product of the recursion: the solver acc.s after the additions of the
\* operands and the call, and the products so far with this one
ST_recurse(acc, X, Y, additions, depth) ==
    LET Kept(r) == [s |-> r, M |-> Append(acc.M, r.result)]
    IN IF Len(acc.M) < 7
       THEN Kept(ST_strassen(ST_counted(acc.s, additions), X, Y, depth + 1))
       ELSE acc

\* the seven products of _strassen; q is the number of entries of a quadrant
ST_products(s, a, b, q, depth) ==
    ST_recurse(
     ST_recurse(
      ST_recurse(
       ST_recurse(
        ST_recurse(
         ST_recurse(
          ST_recurse([s |-> s, M |-> <<>>],
                     ST_addMatrices(a.m11, a.m22), ST_addMatrices(b.m11, b.m22), 2 * q, depth),
          ST_addMatrices(a.m21, a.m22), b.m11, q, depth),
         a.m11, ST_subtractMatrices(b.m12, b.m22), q, depth),
        a.m22, ST_subtractMatrices(b.m21, b.m11), q, depth),
       ST_addMatrices(a.m11, a.m12), b.m22, q, depth),
      ST_subtractMatrices(a.m21, a.m11), ST_addMatrices(b.m11, b.m12), 2 * q, depth),
     ST_subtractMatrices(a.m12, a.m22), ST_addMatrices(b.m21, b.m22), 2 * q, depth)

\* the result of _strassen from its seven products
ST_combine(M) ==
    ST_combineQuadrants(
        ST_addMatrices(ST_subtractMatrices(ST_addMatrices(M[1], M[4]), M[5]), M[7]),
        ST_addMatrices(M[3], M[5]),
        ST_addMatrices(M[2], M[4]),
        ST_addMatrices(ST_subtractMatrices(ST_addMatrices(M[1], M[3]), M[2]), M[6]))

\* _strassen above 2 x 2: the 'divide' step, the products, the 'combine' step
ST_divide(s, A, B, depth) ==
    LET q == (Len(A) \div 2) * (Len(A) \div 2)
        Divided(t) == [t EXCEPT !.steps = Append(@, STStep("divide", "divide", "Divide",
                                                           Desc("Splitting n x n matrices into four quadrants each.",
                                                                <<Len(A), Len(A) \div 2, depth>>),
                                                           A, B, <<>>, t.stats))]
        Combined(t, result) ==
            [t EXCEPT !.result = result,
                      !.steps = Append(@, STStep("combine", "combine", "Combine",
                                                 Desc("Combining quadrants to form n x n result matrix.",
                                                      <<Len(A), depth>>),
                                                 <<>>, <<>>, result, t.stats))]
        Finish(acc) == Combined(ST_counted(acc.s, 8 * q), ST_combine(acc.M))
    IN Finish(ST_products(Divided(s), ST_splitMatrix(A), ST_splitMatrix(B), q, depth))

ST_strassen(s, A, B, depth) ==
    LET Entered(t) == [t EXCEPT !.stats.recursionDepth = depth,
                                !.stats.maxDepth = Max2(@, depth)]
    IN IF Len(A) = 1 THEN ST_baseCase(Entered(s), A, B)
       ELSE IF Len(A) = 2 THEN ST_strassen2x2(Entered(s), A, B)
       ELSE ST_divide(Entered(s), A, B, depth)

\* naiveMultiply
RECURSIVE ST_dot(_, _, _, _, _)
ST_dot(A, B, i, j, k) == IF k > Len(A) THEN 0 ELSE A[i][k] * B[k][j] + ST_dot(A, B, i, j, k + 1)

NaiveMultiply(A, B) == [i \in DOMAIN A |-> [j \in DOMAIN A |-> ST_dot(A, B, i, j, 1)]]

\* solve() up to its call of _strassen
ST_begin(s) ==
    LET s0 == ST_resetState(s)
    IN [s0 EXCEPT !.steps = Append(@, STStep("init", "setup", "Initialize Strassen Algorithm",
                                             Desc("Multiplying two n x n matrices", <<s0.n>>),
                                             s0.matrixA, s0.matrixB, <<>>, s0.stats))]

\* _splitMatrix: for an odd length mid = n / 2 is no index, M[i + mid] is
\* undefined and its slice is a TypeError in the first round of the loop
ST_splitMatrixThrows(M) == Len(M) % 2 = 1

\* solve() of a matrix of odd dimension above 2: _strassen sets the depth and
\* throws in _splitMatrix, after the 'init' step was pushed
ST_thrown(s) ==
    [ST_begin(s) EXCEPT !.stats.recursionDepth = 0, !.stats.maxDepth = Max2(@, 0)]

ST_solve(s) ==
    LET s1 == ST_begin(s)
        s2 == ST_strassen(s1, s1.matrixA, s1.matrixB, 0)
        s3 == [s2 EXCEPT !.steps = Append(@, STStep("complete", "complete", "Strassen Multiplication Complete!",
                                                    Desc("Final result computed!",
                                                         <<s2.stats.multiplications, s2.stats.additions,
                                                           s2.stats.maxDepth, s2.n * s2.n * s2.n>>),
                                                    s2.matrixA, s2.matrixB, s2.result, s2.stats))]
    IN [result |-> s3.result, steps |-> s3.steps, stats |-> s3.stats]

(***************************************************************************)
(* StrassenVisualizer  (src/components/strassen/visualizer.js)             *)
(* view is the rendered step (<<>> before anything was rendered), the      *)
(* timer handle lives in playInterval, here the field animationId.         *)
(***************************************************************************)
StrassenVisualizer ==
    [steps |-> <<>>, currentStep |-> 0, isPlaying |-> FALSE, speed |-> 500,
     animationId |-> NOID, timeouts |-> {},
     matrixA |-> <<>>, matrixB |-> <<>>, view |-> <<>>, status |-> <<>>]

SV_renderCurrentStep(v) ==
    IF v.currentStep + 1 \notin DOMAIN v.steps THEN v
    ELSE LET step == v.steps[v.currentStep + 1]
         IN [v EXCEPT !.status = <<step.title, step.description>>, !.view = <<step>>]

SV_init(v, steps, matrixA, matrixB) ==
    SV_renderCurrentStep([v EXCEPT !.steps = steps, !.currentStep = 0,
                                   !.matrixA = matrixA, !.matrixB = matrixB])

SV_setSpeed(v, ms) == [v EXCEPT !.speed = ms]

SV_pause(v) ==
    LET v1 == [v EXCEPT !.isPlaying = FALSE] IN
    IF v1.animationId # NOID
    THEN [ClearTimeout(v1, v1.animationId) EXCEPT !.animationId = NOID]
    ELSE v1

\* stepForward and stepBackward return the visualizer and the boolean result
SV_stepForward(v) ==
    IF v.currentStep < Len(v.steps) - 1
    THEN [v |-> SV_renderCurrentStep([v EXCEPT !.currentStep = @ + 1]), moved |-> TRUE]
    ELSE [v |-> v, moved |-> FALSE]

SV_stepBackward(v) ==
    IF v.currentStep > 0
    THEN [v |-> SV_renderCurrentStep([v EXCEPT !.currentStep = @ - 1]), moved |-> TRUE]
    ELSE [v |-> v, moved |-> FALSE]

SV_autoStep(v) ==
    IF ~v.isPlaying THEN v
    ELSE LET r == SV_stepForward(v)
         IN IF r.moved THEN SetTimeout(r.v)
            ELSE [r.v EXCEPT !.isPlaying = FALSE]

SV_play(v) ==
    IF v.isPlaying THEN v
    ELSE SV_autoStep([v EXCEPT !.isPlaying = TRUE])

SV_timeout(v, id) == SV_autoStep(Expire(v, id))

(***************************************************************************)
(* TracebackManager  (src/unnamed/part_006)                                *)
(* The operators work on m = [tb |-> the manager, viz |-> its visualizer]. *)
(* A walker is one call of _animateKnapsackTraceback or                    *)
(* _animateLCSTraceback suspended in `await this._delay(...)`: its local   *)
(* variables i, j (w for knapsack) and lcsChars and the {weights, values}  *)
(* or {s1, s2} it destructured from algoData when it was called.           *)
(***************************************************************************)
TracebackManager ==
    [dpTable |-> NULL, algoType |-> NULL, algoData |-> NULL,
     isTracing |-> FALSE, isMonkMode |-> FALSE,
     selectedItems |-> <<>>, lcsResult |-> <<>>,
     log |-> <<>>, cardHidden |-> TRUE, resultHidden |-> TRUE,
     selectedItemsEl |-> NoText, btnActive |-> FALSE,
     cellClickHandler |-> <<>>, wrong |-> {}, wrongTimers |-> <<>>]

LogEntry(type, i, j, a) == [type |-> type, i |-> i, j |-> j, a |-> a]

TB_addLogEntry(m, entry) == [m EXCEPT !.tb.log = Append(@, entry)]

TB_init(m, algoType, dpTable, algoData, isMonkMode) ==
    [m EXCEPT !.tb.algoType = algoType, !.tb.dpTable = dpTable, !.tb.algoData = algoData,
              !.tb.isMonkMode = isMonkMode, !.tb.selectedItems = <<>>, !.tb.lcsResult = <<>>,
              !.tb.log = <<>>, !.tb.resultHidden = TRUE, !.tb.selectedItemsEl = NoText]

\* wrong holds the cells of class 'traceback-wrong'
TB_clearTracebackHighlights(m) ==
    [m EXCEPT !.viz.tbCurrent = {}, !.viz.tbVisited = {}, !.viz.tbPath = {}, !.tb.wrong = {}]

\* cellClickHandler holds the closure processStep that the container's click
\* listener calls: its variables i, j (w for knapsack) and lcsChars
TB_enableCellClicks(m, callback) == [m EXCEPT !.tb.cellClickHandler = <<callback>>]

TB_disableCellClicks(m) == [m EXCEPT !.tb.cellClickHandler = <<>>]

\* _showWrongClick that also takes the click listener away
TB_showWrongClickStops(m, row, col) ==
    IF <<row, col>> \notin DOMAIN m.viz.cells THEN m
    ELSE [m EXCEPT !.tb.wrong = @ \cup {<<row, col>>}, !.tb.wrongTimers = Append(@, <<row, col>>),
                   !.tb.cellClickHandler = <<>>]

\* _showWrongClick: the class and the timer that removes it
TB_showWrongClick(m, row, col) ==
    IF <<row, col>> \notin DOMAIN m.viz.cells THEN m
    ELSE [m EXCEPT !.tb.wrong = @ \cup {<<row, col>>}, !.tb.wrongTimers = Append(@, <<row, col>>)]

\* the callback of the k-th timer of _showWrongClick
TB_wrongTimeout(m, k) ==
    [m EXCEPT !.tb.wrong = @ \ {m.tb.wrongTimers[k]},
              !.tb.wrongTimers = SubSeq(@, 1, k - 1) \o SubSeq(@, k + 1, Len(@))]

\* _addMonkHint puts the hint before the entries of the log
TB_addMonkHint(m, message) ==
    [m EXCEPT !.tb.log = <<[type |-> "hint", i |-> UNDEF, j |-> UNDEF, a |-> message]>> \o @]

TB_highlightCurrentCell(m, row, col) ==
    [m EXCEPT !.viz.tbCurrent = IF <<row, col>> \in DOMAIN m.viz.cells THEN {<<row, col>>} ELSE {}]

TB_markAsVisited(m, row, col) ==
    IF <<row, col>> \notin DOMAIN m.viz.cells THEN m
    ELSE [m EXCEPT !.viz.tbCurrent = @ \ {<<row, col>>}, !.viz.tbVisited = @ \cup {<<row, col>>}]

TB_markTracePath(m) ==
    [m EXCEPT !.viz.tbCurrent = {}, !.viz.tbPath = @ \cup m.viz.tbVisited]

TB_stopTraceback(m) ==
    TB_disableCellClicks(
        TB_clearTracebackHighlights([m EXCEPT !.tb.isTracing = FALSE, !.tb.btnActive = FALSE,
                                              !.tb.cardHidden = TRUE]))

\* Array.prototype.sort((a, b) => a - b), by insertion
RECURSIVE SortInsert(_, _)
SortInsert(q, x) ==
    IF q = <<>> THEN <<x>>
    ELSE IF x < Head(q) THEN <<x>> \o q
    ELSE <<Head(q)>> \o SortInsert(Tail(q), x)

RECURSIVE Sorted(_)
Sorted(q) == IF q = <<>> THEN <<>> ELSE SortInsert(Sorted(Tail(q)), Head(q))

\* sort() sorts selectedItems in place
TB_finalizeKnapsackResult(m) ==
    LET sortedItems == Sorted(m.tb.selectedItems)
        m1 == [m EXCEPT !.tb.selectedItems = sortedItems,
                        !.tb.selectedItemsEl = Desc("Item", sortedItems)]
        m2 == TB_addLogEntry(m1, LogEntry("complete", UNDEF, UNDEF, sortedItems))
    IN [m2 EXCEPT !.viz.explanation = Desc("Traceback complete! Selected items:", sortedItems)]

TB_finalizeLcsResult(m) ==
    LET m1 == [m EXCEPT !.tb.selectedItemsEl = Desc("(Length: )", m.tb.lcsResult)]
        m2 == TB_addLogEntry(m1, LogEntry("complete", UNDEF, UNDEF, m.tb.lcsResult))
    IN [m2 EXCEPT !.viz.explanation = Desc("Traceback complete! LCS:", m.tb.lcsResult)]

TB_completeTraceback(m) ==
    LET m1 == TB_markTracePath(TB_disableCellClicks([m EXCEPT !.tb.isTracing = FALSE,
                                                              !.tb.btnActive = FALSE]))
        m2 == [m1 EXCEPT !.tb.resultHidden = FALSE]
    IN IF m2.tb.algoType = "knapsack" THEN TB_finalizeKnapsackResult(m2)
       ELSE TB_finalizeLcsResult(m2)

TB_includeItem(m, i, w, weight, value, aboveVal) ==
    TB_addLogEntry([m EXCEPT !.tb.selectedItems = Append(@, i)],
                   LogEntry("include", i, w, <<m.tb.dpTable[i][w], aboveVal, weight, value>>))

TB_excludeItem(m, i, w, aboveVal, value) ==
    TB_addLogEntry(m, LogEntry("exclude", i, w, <<m.tb.dpTable[i][w], aboveVal>>))

TB_logMatch(m, i, j, char1, char2) ==
    TB_addLogEntry(m, LogEntry("match", i, j, <<char1, char2>>))

\* returns the manager and the cell moved to
TB_logMove(m, i, j, char1, char2) ==
    LET topVal == m.tb.dpTable[i - 1][j]
        leftVal == m.tb.dpTable[i][j - 1]
        moveUp == topVal >= leftVal
    IN [m |-> TB_addLogEntry(m, LogEntry(IF moveUp THEN "move-up" ELSE "move-left", i, j,
                                          <<char1, char2, topVal, leftVal>>)),
        i |-> IF moveUp THEN i - 1 ELSE i,
        j |-> IF moveUp THEN j ELSE j - 1]

KnapsackWalker(i, w, data) ==
    [algo |-> "knapsack", i |-> i, j |-> w, lcsChars |-> <<>>, data |-> data, stale |-> FALSE]

LCSWalker(i, j, data) ==
    [algo |-> "lcs", i |-> i, j |-> j, lcsChars |-> <<>>, data |-> data, stale |-> FALSE]

\* the body of the loop without w -= weights[i - 1]
TB_knapsackHopKeepsColumn(m, wk) ==
    LET i == wk.i
        w == wk.j
        aboveVal == m.tb.dpTable[i - 1][w]
        m1 == TB_markAsVisited(m, i, w)
        m2 == IF m.tb.dpTable[i][w] # aboveVal
              THEN TB_includeItem(m1, i, w, wk.data.weights[i], wk.data.values[i], aboveVal)
              ELSE TB_excludeItem(m1, i, w, aboveVal, wk.data.values[i])
    IN [m |-> TB_highlightCurrentCell(m2, i - 1, w),
        wk |-> [wk EXCEPT !.i = i - 1]]

\* the body of the while loop of _animateKnapsackTraceback after the await
TB_knapsackHop(m, wk) ==
    LET i == wk.i
        w == wk.j
        weights == wk.data.weights
        values == wk.data.values
        currentVal == m.tb.dpTable[i][w]
        aboveVal == m.tb.dpTable[i - 1][w]
        m1 == TB_markAsVisited(m, i, w)
        taken == currentVal # aboveVal
        m2 == IF taken THEN TB_includeItem(m1, i, w, weights[i], values[i], aboveVal)
              ELSE TB_excludeItem(m1, i, w, aboveVal, values[i])
        w2 == IF taken THEN w - weights[i] ELSE w
        i2 == i - 1
    IN [m |-> IF i2 > 0 \/ w2 > 0 THEN TB_highlightCurrentCell(m2, i2, w2) ELSE m2,
        wk |-> [wk EXCEPT !.i = i2, !.j = w2]]

\* the body of the loop that logs a mismatch and stays on the cell
TB_lcsHopStays(m, wk) ==
    LET i == wk.i
        j == wk.j
        m1 == TB_markAsVisited(m, i, j)
        char1 == wk.data.s1[i]
        char2 == wk.data.s2[j]
        mv == TB_logMove(m1, i, j, char1, char2)
    IN [m |-> IF char1 = char2 THEN TB_logMatch(m1, i, j, char1, char2) ELSE mv.m,
        wk |-> [wk EXCEPT !.i = IF char1 = char2 THEN i - 1 ELSE i,
                          !.j = IF char1 = char2 THEN j - 1 ELSE j,
                          !.lcsChars = IF char1 = char2 THEN <<char1>> \o @ ELSE @]]

\* the body of the loop with push in the place of unshift
TB_lcsHopPushes(m, wk) ==
    LET i == wk.i
        j == wk.j
        m1 == TB_markAsVisited(m, i, j)
        char1 == wk.data.s1[i]
        char2 == wk.data.s2[j]
        mv == TB_logMove(m1, i, j, char1, char2)
    IN [m |-> IF char1 = char2 THEN TB_logMatch(m1, i, j, char1, char2) ELSE mv.m,
        wk |-> [wk EXCEPT !.i = IF char1 = char2 THEN i - 1 ELSE mv.i,
                          !.j = IF char1 = char2 THEN j - 1 ELSE mv.j,
                          !.lcsChars = IF char1 = char2 THEN @ \o <<char1>> ELSE @]]

\* the body of the while loop of _animateLCSTraceback after the await
TB_lcsHop(m, wk) ==
    LET i == wk.i
        j == wk.j
        m1 == TB_markAsVisited(m, i, j)
        char1 == wk.data.s1[i]
        char2 == wk.data.s2[j]
        mv == TB_logMove(m1, i, j, char1, char2)
        m2 == IF char1 = char2 THEN TB_logMatch(m1, i, j, char1, char2) ELSE mv.m
        i2 == IF char1 = char2 THEN i - 1 ELSE mv.i
        j2 == IF char1 = char2 THEN j - 1 ELSE mv.j
    IN [m |-> IF i2 > 0 /\ j2 > 0 THEN TB_highlightCurrentCell(m2, i2, j2) ELSE m2,
        wk |-> [wk EXCEPT !.i = i2, !.j = j2,
                          !.lcsChars = IF char1 = char2 THEN <<char1>> \o @ ELSE @]]

\* what follows the while loop
TB_afterLoop(m, wk) ==
    IF wk.algo = "knapsack" THEN TB_completeTraceback(m)
    ELSE TB_completeTraceback([m EXCEPT !.tb.lcsResult = wk.lcsChars])

\* a walker resumes when its delay resolves: one hop, then either the next
\* await (asleep) or the end of the function
TB_resume(m, wk) ==
    LET r == IF wk.algo = "knapsack" THEN TB_knapsackHop(m, wk) ELSE TB_lcsHop(m, wk)
    IN IF r.wk.i > 0 /\ r.wk.j > 0
       THEN [m |-> r.m, wk |-> r.wk, asleep |-> TRUE]
       ELSE [m |-> TB_afterLoop(r.m, r.wk), wk |-> r.wk, asleep |-> FALSE]

\* the call of _animateKnapsackTraceback / _animateLCSTraceback up to its
\* first await, or to its end when the loop is not entered
TB_animate(m, wk) ==
    IF wk.i > 0 /\ wk.j > 0 THEN [m |-> m, wk |-> wk, asleep |-> TRUE]
    ELSE [m |-> TB_afterLoop(m, wk), wk |-> wk, asleep |-> FALSE]

\* _setupMonkModeKnapsack and _setupMonkModeLCS: the closure waits for a
\* click; nothing is asleep
TB_setupMonkMode(m, wk) == [m |-> TB_enableCellClicks(m, wk), wk |-> wk, asleep |-> FALSE]

\* the cell processStep of _setupMonkModeKnapsack expects at i, w
TB_expectedKnapsackMove(m, wk) ==
    [expectedRow |-> wk.i - 1,
     expectedCol |-> IF m.tb.dpTable[wk.i][wk.j] # m.tb.dpTable[wk.i - 1][wk.j]
                     THEN wk.j - wk.data.weights[wk.i] ELSE wk.j,
     isInclude |-> m.tb.dpTable[wk.i][wk.j] # m.tb.dpTable[wk.i - 1][wk.j]]

\* _expectedLcsMove that goes up only when the top value is larger
TB_expectedLcsMoveStrict(m, i, j, char1, char2) ==
    IF char1 = char2 THEN [expectedRow |-> i - 1, expectedCol |-> j - 1, isMatch |-> TRUE]
    ELSE IF m.tb.dpTable[i - 1][j] > m.tb.dpTable[i][j - 1]
    THEN [expectedRow |-> i - 1, expectedCol |-> j, isMatch |-> FALSE]
    ELSE [expectedRow |-> i, expectedCol |-> j - 1, isMatch |-> FALSE]

\* _expectedLcsMove
TB_expectedLcsMove(m, i, j, char1, char2) ==
    IF char1 = char2 THEN [expectedRow |-> i - 1, expectedCol |-> j - 1, isMatch |-> TRUE]
    ELSE IF m.tb.dpTable[i - 1][j] >= m.tb.dpTable[i][j - 1]
    THEN [expectedRow |-> i - 1, expectedCol |-> j, isMatch |-> FALSE]
    ELSE [expectedRow |-> i, expectedCol |-> j - 1, isMatch |-> FALSE]

\* processStep after the expected cell was clicked and logged: the closure
\* moves there, and the walk is completed or waits for the next click
TB_moved(m, wk) ==
    IF wk.i <= 0 \/ wk.j <= 0 THEN TB_afterLoop(m, wk)
    ELSE TB_enableCellClicks(TB_highlightCurrentCell(m, wk.i, wk.j), wk)

\* processStep of _setupMonkModeKnapsack
TB_processKnapsackStep(m, wk, clickedRow, clickedCol) ==
    LET Accept(e) ==
            TB_moved(IF e.isInclude
                     THEN TB_includeItem(TB_markAsVisited(m, wk.i, wk.j), wk.i, wk.j,
                                         wk.data.weights[wk.i], wk.data.values[wk.i],
                                         m.tb.dpTable[wk.i - 1][wk.j])
                     ELSE TB_excludeItem(TB_markAsVisited(m, wk.i, wk.j), wk.i, wk.j,
                                         m.tb.dpTable[wk.i - 1][wk.j], wk.data.values[wk.i]),
                     [wk EXCEPT !.i = e.expectedRow, !.j = e.expectedCol])
        Decide(e) ==
            IF clickedRow = e.expectedRow /\ clickedCol = e.expectedCol THEN Accept(e)
            ELSE TB_showWrongClick(m, clickedRow, clickedCol)
    IN IF wk.i <= 0 \/ wk.j <= 0 THEN TB_completeTraceback(m)
       ELSE Decide(TB_expectedKnapsackMove(m, wk))

\* processStep of _setupMonkModeLCS
TB_processLcsStep(m, wk, clickedRow, clickedCol) ==
    LET Accept(e) ==
            TB_moved(IF e.isMatch
                     THEN TB_logMatch(TB_markAsVisited(m, wk.i, wk.j), wk.i, wk.j,
                                      wk.data.s1[wk.i], wk.data.s2[wk.j])
                     ELSE TB_logMove(TB_markAsVisited(m, wk.i, wk.j), wk.i, wk.j,
                                     wk.data.s1[wk.i], wk.data.s2[wk.j]).m,
                     [wk EXCEPT !.i = e.expectedRow, !.j = e.expectedCol,
                                !.lcsChars = IF e.isMatch THEN <<wk.data.s1[wk.i]>> \o @ ELSE @])
        Decide(e) ==
            IF clickedRow = e.expectedRow /\ clickedCol = e.expectedCol THEN Accept(e)
            ELSE TB_showWrongClick(m, clickedRow, clickedCol)
    IN IF wk.i <= 0 \/ wk.j <= 0 THEN TB_afterLoop(m, wk)
       ELSE Decide(TB_expectedLcsMove(m, wk.i, wk.j, wk.data.s1[wk.i], wk.data.s2[wk.j]))

\* the click listener of _enableCellClicks on a cell that is no header
TB_cellClick(m, row, col) ==
    IF m.tb.cellClickHandler[1].algo = "knapsack"
    THEN TB_processKnapsackStep(m, m.tb.cellClickHandler[1], row, col)
    ELSE TB_processLcsStep(m, m.tb.cellClickHandler[1], row, col)

TB_startKnapsackTraceback(m) ==
    LET n == Len(m.tb.algoData.weights)
        capacity == m.tb.algoData.capacity
        m1 == TB_addLogEntry(m, LogEntry("start", n, capacity, <<m.tb.dpTable[n][capacity]>>))
    IN IF m.tb.isMonkMode
       THEN TB_setupMonkMode(TB_addMonkHint(TB_highlightCurrentCell(m1, n, capacity),
                                            "Click the cell that traceback should visit next"),
                             KnapsackWalker(n, capacity, m.tb.algoData))
       ELSE TB_animate(TB_highlightCurrentCell(m1, n, capacity),
                       KnapsackWalker(n, capacity, m.tb.algoData))

TB_startLCSTraceback(m) ==
    LET mm == Len(m.tb.algoData.s1)
        n == Len(m.tb.algoData.s2)
        m1 == TB_addLogEntry([m EXCEPT !.tb.lcsResult = <<>>],
                             LogEntry("start", mm, n, <<m.tb.dpTable[mm][n]>>))
    IN IF m.tb.isMonkMode
       THEN TB_setupMonkMode(TB_addMonkHint(TB_highlightCurrentCell(m1, mm, n),
                                            "Click the cell that traceback should visit next"),
                             LCSWalker(mm, n, m.tb.algoData))
       ELSE TB_animate(TB_highlightCurrentCell(m1, mm, n), LCSWalker(mm, n, m.tb.algoData))

\* startTraceback
TB_startTraceback(m) ==
    LET m1 == TB_clearTracebackHighlights([m EXCEPT !.tb.isTracing = TRUE, !.tb.cardHidden = FALSE,
                                                    !.tb.btnActive = TRUE])
    IN IF m1.tb.algoType = "knapsack" THEN TB_startKnapsackTraceback(m1)
       ELSE TB_startLCSTraceback(m1)

(***************************************************************************)
(* Inputs                                                                  *)
(***************************************************************************)
SeqsUpTo(S, n) == UNION {[1..k -> S] : k \in 0..n}

KnapsackInputs ==
    {[capacity |-> 2, weights |-> <<1, 2>>, values |-> <<3, 4>>],
     [capacity |-> 2, weights |-> <<2, 1>>, values |-> <<2, 3>>],
     [capacity |-> 1, weights |-> <<2>>, values |-> <<5>>]}

LCSInputs ==
    {[s1 |-> <<1, 2>>, s2 |-> <<2, 1>>],
     [s1 |-> <<1, 2>>, s2 |-> <<1, 2>>],
     [s1 |-> <<1>>, s2 |-> <<2, 2>>]}

HeapArrays == SeqsUpTo(1..HeapMaxVal, HeapMaxLen)

HeapInputs ==
    {[array |-> a, operation |-> "build", insertValue |-> UNDEF] : a \in HeapArrays}
    \cup {[array |-> a, operation |-> "extract", insertValue |-> UNDEF] : a \in HeapArrays}
    \cup {[array |-> a, operation |-> "insert", insertValue |-> x] : a \in HeapArrays, x \in 1..HeapMaxVal}

CSInputs == SeqsUpTo(0..CSMaxVal, CSMaxLen)

StrassenInputs == {[A |-> <<<<a>>>>, B |-> <<<<b>>>>] : a \in 1..2, b \in 2..3}

Speeds == {100, 500}

(***************************************************************************)
(* AppController: starting a visualisation  (src/app/appController.js)     *)
(***************************************************************************)
\* _buildSolver and solver.solve() of _startVisualization
AC_solveGrid(algoName, data) ==
    IF algoName = "knapsack"
    THEN [result |-> KS_solve(KnapsackSolver(data.capacity, data.weights, data.values)),
          rows |-> Len(data.weights) + 1, cols |-> data.capacity + 1]
    ELSE [result |-> LCS_solve(LCSSolver(data.s1, data.s2)),
          rows |-> Len(data.s1) + 1, cols |-> Len(data.s2) + 1]

\* _startVisualization: renderGrid, loadSteps, then the status line; b is
\* the solved input
AC_startVisualization(v, b) ==
    [V_loadSteps(V_renderGrid(v, b.rows, b.cols, FALSE), b.result.steps)
        EXCEPT !.explanation = Desc("Ready. Press Play or use Traceback after completing.", <<>>)]

\* the solver call of _runHeapSimulation, visualize branch
AC_solveHeap(data) ==
    LET solver == HeapSolver(data.array, data.operation)
    IN CASE data.operation = "build" -> H_buildMaxHeap(solver)
         [] data.operation = "extract" -> H_extractMax(solver)
         [] OTHER -> H_insertElement(solver, data.insertValue)

\* _runHeapSimulation, visualize branch: renderHeap(result.heap), loadSteps,
\* then the status line
AC_showHeap(v, data, result) ==
    [HV_loadSteps(HV_renderHeap(v, result.heap), result.steps)
        EXCEPT !.status =
            CASE data.operation = "build" ->
                     Desc("Ready. Press Play to visualize Build-Max-Heap. Total steps:",
                          <<Len(result.steps)>>)
              [] data.operation = "extract" ->
                     Desc("Ready. Press Play to visualize Extract-Max (removed: ). Steps:",
                          <<result.extractedValue, Len(result.steps)>>)
              [] OTHER ->
                     Desc("Ready. Press Play to visualize Insert (). Steps:",
                          <<data.insertValue, Len(result.steps)>>)]

\* _runCountingSortSimulation, visualize branch: render(array), loadSteps,
\* then the status line
AC_showCountingSort(v, array, result) ==
    [CV_loadSteps(CV_render(v, array, <<>>, <<>>), result.steps)
        EXCEPT !.status = Desc("Ready. Press Play to visualize Counting Sort. Total steps:",
                               <<Len(result.steps)>>)]

(***************************************************************************)
(* MonkMode.startLevel (src/unnamed/part_002), HeapMonkMode.startLevel and *)
(* reset (src/components/heap/monkMode.js), CountingSortMonkMode.startLevel*)
(* and reset (src/unnamed/part_005)                                        *)
(***************************************************************************)
\* MonkMode.startLevel: the answer key, then an interactive grid
MM_startLevel(mm, v, algoType, inputData) ==
    LET b == AC_solveGrid(algoType, inputData)
    IN [mm |-> [mm EXCEPT !.currentAlgo = algoType, !.answerKey = b.result.dp],
        v |-> V_renderGrid(v, b.rows, b.cols, TRUE)]

\* Number(input.value): an empty input reads as 0
NumberOf(value) == IF value = EMPTY THEN 0 ELSE value

\* parseInt(input.value, 10) of an input that is empty or holds a whole number
ParseInt(value) == IF value = EMPTY THEN NaN ELSE value

\* the classes 'correct' and 'incorrect' of the cells are the pairs of marks
MM_unmark(v, rc) == [v EXCEPT !.marks = @ \ {<<rc, "correct">>, <<rc, "incorrect">>}]

MM_mark(v, rc, right) ==
    [v EXCEPT !.marks = (@ \ {<<rc, "correct">>, <<rc, "incorrect">>})
                            \cup {<<rc, IF right THEN "correct" ELSE "incorrect">>}]

\* MonkMode._validateSingleInput on the input of cell rc
MM_validateSingleInput(mm, v, rc) ==
    IF ParseInt(v.cells[rc]) = NaN THEN MM_unmark(v, rc)
    ELSE MM_mark(v, rc, ParseInt(v.cells[rc]) = mm.answerKey[rc[1]][rc[2]])

\* the 'change' event of the input of cell rc after value was typed
MM_change(mm, v, rc, value) == MM_validateSingleInput(mm, [v EXCEPT !.cells[rc] = value], rc)

\* the cells that have an input: all cells of an interactive grid
MM_inputs(v) == IF v.interactive THEN DOMAIN v.cells ELSE {}

\* MonkMode.checkAll: the grid with its marks, and the result
MM_checkAll(mm, v) ==
    LET Right(rc) == ParseInt(v.cells[rc]) = mm.answerKey[rc[1]][rc[2]]
        Result(score, total) ==
            [v |-> [v EXCEPT !.marks = {<<rc, IF Right(rc) THEN "correct" ELSE "incorrect">> :
                                            rc \in MM_inputs(v)}],
             allCorrect |-> score = total, score |-> score, total |-> total]
    IN Result(Cardinality({rc \in MM_inputs(v) : Right(rc)}), Cardinality(MM_inputs(v)))

HeapMonkMode ==
    [expectedSwaps |-> <<>>, currentSwapIndex |-> 0, userArray |-> <<>>, selectedNode |-> NULL,
     isActive |-> FALSE, operation |-> "build", userStats |-> ZeroHeapStats]

SwapOf(step) ==
    [from |-> step.from, to |-> step.to, fromValue |-> step.fromValue, toValue |-> step.toValue]

RECURSIVE SelectSwaps(_, _)
SelectSwaps(steps, types) ==
    IF steps = <<>> THEN <<>>
    ELSE (IF Head(steps).type \in types THEN <<SwapOf(Head(steps))>> ELSE <<>>)
         \o SelectSwaps(Tail(steps), types)

\* HeapSolver.getSwapSequence
H_getSwapSequence(steps) == SelectSwaps(steps, {"swap"})

\* findIndex that answers with the first step of the trace
FindTypeFromStart(steps, types) == 0

\* Array.prototype.findIndex on the step types, 0-based, -1 when none
FindType(steps, types) ==
    IF \E k \in 1..Len(steps) : steps[k].type \in types
    THEN (CHOOSE k \in 1..Len(steps) :
              /\ steps[k].type \in types
              /\ \A j \in 1..(k - 1) : steps[j].type \notin types) - 1
    ELSE 0 - 1

\* HeapMonkMode.startLevel.  For extract and insert the swaps are collected
\* from the step at operationStartIndex on; when no such step exists the
\* index is -1, steps[-1] is undefined and reading its type throws: error
\* tells that, and the assignments after the loop have not run.
HM_startLevel(hm, hv, operationData) ==
    LET array == operationData.array
        operation == operationData.operation
        result == AC_solveHeap(operationData)
        built == H_buildMaxHeap(HeapSolver(array, "build")).heap
        userArray ==
            CASE operation = "build" -> array
              [] operation = "extract" ->
                     IF Len(built) > 0
                     THEN SubSeq([built EXCEPT ![1] = built[Len(built)]], 1, Len(built) - 1)
                     ELSE built
              [] OTHER -> Append(built, operationData.insertValue)
        operationStartIndex == FindType(result.steps, {"extract-heapify-start", "insert-add"})
        throws == operation # "build" /\ operationStartIndex < 0
        expectedSwaps ==
            IF operation = "build" THEN H_getSwapSequence(result.steps)
            ELSE SelectSwaps(SubSeq(result.steps, operationStartIndex + 1, Len(result.steps)),
                             {"swap", "bubble-swap"})
        hm1 == [hm EXCEPT !.operation = operation, !.userStats = ZeroHeapStats,
                          !.userArray = userArray]
    IN IF throws
       THEN [hm |-> [hm1 EXCEPT !.expectedSwaps = <<>>], hv |-> hv, totalSwaps |-> 0,
             error |-> TRUE]
       ELSE [hm |-> [hm1 EXCEPT !.expectedSwaps = expectedSwaps, !.currentSwapIndex = 0,
                                !.selectedNode = NULL, !.isActive = TRUE],
             hv |-> HV_updateStats(HV_renderHeap(hv, userArray), ZeroHeapStats),
             totalSwaps |-> Len(expectedSwaps), error |-> FALSE]

\* HeapMonkMode.reset
HM_reset(hm, hv) ==
    [hm |-> [hm EXCEPT !.isActive = FALSE, !.selectedNode = NULL, !.currentSwapIndex = 0,
                       !.userStats = ZeroHeapStats],
     hv |-> HV_clearHighlights(hv)]

\* validateSwap accepting the pair only when clicked from parent to child
H_validateSwapOrdered(currentArray, fromIndex, toIndex, expectedSwaps, swapIndex) ==
    IF swapIndex >= Len(expectedSwaps)
    THEN [valid |-> FALSE, message |-> Desc("No more swaps expected!", <<>>)]
    ELSE IF fromIndex = expectedSwaps[swapIndex + 1].from /\ toIndex = expectedSwaps[swapIndex + 1].to
    THEN [valid |-> TRUE,
          message |-> Desc("Correct swap!", <<At(currentArray, fromIndex), At(currentArray, toIndex)>>)]
    ELSE [valid |-> FALSE,
          message |-> Desc("Incorrect! Expected swap at indices",
                           <<expectedSwaps[swapIndex + 1].from, expectedSwaps[swapIndex + 1].to>>)]

\* HeapSolver.validateSwap
H_validateSwap(currentArray, fromIndex, toIndex, expectedSwaps, swapIndex) ==
    IF swapIndex >= Len(expectedSwaps)
    THEN [valid |-> FALSE, message |-> Desc("No more swaps expected!", <<>>)]
    ELSE IF \/ fromIndex = expectedSwaps[swapIndex + 1].from
               /\ toIndex = expectedSwaps[swapIndex + 1].to
            \/ fromIndex = expectedSwaps[swapIndex + 1].to
               /\ toIndex = expectedSwaps[swapIndex + 1].from
    THEN [valid |-> TRUE,
          message |-> Desc("Correct swap!", <<At(currentArray, fromIndex), At(currentArray, toIndex)>>)]
    ELSE [valid |-> FALSE,
          message |-> Desc("Incorrect! Expected swap at indices",
                           <<expectedSwaps[swapIndex + 1].from, expectedSwaps[swapIndex + 1].to>>)]

\* HeapMonkMode._highlightPair; h is the monk mode hm with the player hv
\* whose nodes it draws on
HM_highlightPair(h, indices, cls) == [h EXCEPT !.hv = HV_highlightAll(@, indices, cls)]

\* HeapMonkMode._updateStatus writes the status element of the player
HM_updateStatus(h, message) == [h EXCEPT !.hv.status = message]

\* HeapMonkMode._updateArrayDisplay
HM_updateArrayDisplay(h) ==
    IF Len(h.hv.dom) # Len(h.hm.userArray)
    THEN [h EXCEPT !.hv = HV_renderHeap(@, h.hm.userArray)]
    ELSE [h EXCEPT !.hv.dom = h.hm.userArray]

\* HeapMonkMode._onComplete
HM_onComplete(h) ==
    [h EXCEPT !.hm.isActive = FALSE,
              !.hv.status = Desc("Congratulations!", <<h.hm.operation>>),
              !.hv.hl = @ \cup {<<i, "correct">> : i \in 0..(Len(h.hv.dom) - 1)}]

\* the counters of a valid swap, after currentSwapIndex was increased
HM_countSwap(hm, fromIndex, toIndex) ==
    IF hm.operation = "build"
    THEN [hm EXCEPT !.userStats.swapCount = @ + 1,
                    !.userStats.heapifyCalls =
                        IF hm.currentSwapIndex = 1 \/ toIndex < fromIndex THEN @ + 1 ELSE @,
                    !.userStats.recursiveCalls =
                        IF toIndex # fromIndex /\ toIndex > 0 THEN @ + 1 ELSE @]
    ELSE [hm EXCEPT !.userStats.swapCount = @ + 1,
                    !.userStats.heapifyCalls = IF hm.currentSwapIndex = 1 THEN @ + 1 ELSE @,
                    !.userStats.recursiveCalls = IF hm.currentSwapIndex = 1 THEN @ ELSE @ + 1]

\* HeapMonkMode._attemptSwap
HM_attemptSwap(h, fromIndex, toIndex) ==
    LET Swapped(t) ==
            [t EXCEPT !.hm = HM_countSwap([@ EXCEPT !.userArray = SwapAt(@, fromIndex, toIndex),
                                                    !.currentSwapIndex = @ + 1],
                                          fromIndex, toIndex)]
        Shown(t, message) ==
            [HM_updateStatus(HM_highlightPair(HM_updateArrayDisplay(t), <<fromIndex, toIndex>>,
                                              "correct"), message)
                EXCEPT !.hv.statsShown = t.hm.userStats]
        Finish(t) ==
            IF t.hm.currentSwapIndex >= Len(t.hm.expectedSwaps) THEN HM_onComplete(t) ELSE t
        Decide(t, result) ==
            IF result.valid THEN Finish(Shown(Swapped(t), result.message))
            ELSE HM_updateStatus(HM_highlightPair(t, <<fromIndex, toIndex>>, "incorrect"),
                                 result.message)
    IN Decide([h EXCEPT !.hv = HV_clearHighlights(@)],
              H_validateSwap(h.hm.userArray, fromIndex, toIndex, h.hm.expectedSwaps,
                             h.hm.currentSwapIndex))

\* HeapMonkMode._handleNodeClick
HM_handleNodeClick(h, index) ==
    IF h.hm.selectedNode = NULL
    THEN HM_updateStatus(HM_highlightPair([h EXCEPT !.hm.selectedNode = index], <<index>>, "current"),
                         Desc("Selected node at index. Click another node to swap.",
                              <<index, At(h.hm.userArray, index)>>))
    ELSE IF h.hm.selectedNode = index
    THEN [h EXCEPT !.hm.selectedNode = NULL, !.hv.hl = {},
                   !.hv.status = Desc("Selection cancelled. Click a node to start a swap.", <<>>)]
    ELSE [HM_attemptSwap(h, h.hm.selectedNode, index) EXCEPT !.hm.selectedNode = NULL]

\* the click handler that _attachClickListeners puts on every node and cell
HM_click(h, index) == IF ~h.hm.isActive THEN h ELSE HM_handleNodeClick(h, index)

CountingSortMonkMode ==
    [inputArray |-> <<>>, maxValue |-> 0,
     countArrayKey |-> <<>>, cumulativeArrayKey |-> <<>>, outputArrayKey |-> <<>>,
     currentPhase |-> 1,
     userCountArray |-> <<>>, userCumulativeArray |-> <<>>, userOutputArray |-> <<>>,
     phase1Complete |-> FALSE, phase2Complete |-> FALSE, phase3Complete |-> FALSE,
     isActive |-> FALSE, marks |-> <<>>]

RECURSIVE MaxOf(_)
MaxOf(q) == IF Len(q) = 1 THEN q[1] ELSE Max2(q[1], MaxOf(Tail(q)))

RECURSIVE PrefixSums(_)
PrefixSums(q) ==
    IF q = <<>> THEN <<>>
    ELSE LET front == PrefixSums(SubSeq(q, 1, Len(q) - 1))
         IN Append(front, q[Len(q)] + (IF front = <<>> THEN 0 ELSE front[Len(front)]))

\* _buildAnswerKeys without the loop of phase 2
CM_buildAnswerKeysNoSums(cm) ==
    LET maxValue == MaxOf(cm.inputArray)
        counts == [c \in 1..(maxValue + 1) |->
                      Cardinality({i \in 1..Len(cm.inputArray) : cm.inputArray[i] = c - 1})]
    IN [cm EXCEPT !.maxValue = maxValue, !.countArrayKey = counts,
                  !.cumulativeArrayKey = counts,
                  !.outputArrayKey = CS_solve(CountingSortSolver(cm.inputArray)).sortedArray]

\* CountingSortMonkMode._buildAnswerKeys for a non-empty array
CM_buildAnswerKeys(cm) ==
    LET maxValue == MaxOf(cm.inputArray)
        counts == [c \in 1..(maxValue + 1) |->
                      Cardinality({i \in 1..Len(cm.inputArray) : cm.inputArray[i] = c - 1})]
    IN [cm EXCEPT !.maxValue = maxValue, !.countArrayKey = counts,
                  !.cumulativeArrayKey = PrefixSums(counts),
                  !.outputArrayKey = CS_solve(CountingSortSolver(cm.inputArray)).sortedArray]

\* CountingSortMonkMode.startLevel; the status line it writes is returned
CM_startLevel(cm, inputArray) ==
    LET cm1 == CM_buildAnswerKeys([cm EXCEPT !.inputArray = inputArray, !.isActive = TRUE])
    IN [cm |-> [cm1 EXCEPT !.userCountArray = [c \in 1..(cm1.maxValue + 1) |-> NULL],
                           !.userCumulativeArray = [c \in 1..(cm1.maxValue + 1) |-> NULL],
                           !.userOutputArray = [c \in 1..Len(inputArray) |-> NULL],
                           !.currentPhase = 1, !.phase1Complete = FALSE,
                           !.phase2Complete = FALSE, !.phase3Complete = FALSE,
                           !.marks = [c \in 1..(cm1.maxValue + 1) |-> "none"]],
        status |-> Desc("Phase 1: Fill in the count array.", <<cm1.maxValue>>)]

\* CountingSortMonkMode.reset
CM_reset(cm) == [cm EXCEPT !.isActive = FALSE, !.currentPhase = 1, !.marks = <<>>]

\* the answer key and the entries of the user in a phase
CM_key(cm, phase) ==
    CASE phase = 1 -> cm.countArrayKey
      [] phase = 2 -> cm.cumulativeArrayKey
      [] OTHER -> cm.outputArrayKey

CM_user(cm, phase) ==
    CASE phase = 1 -> cm.userCountArray
      [] phase = 2 -> cm.userCumulativeArray
      [] OTHER -> cm.userOutputArray

CM_locked(cm, phase) ==
    CASE phase = 1 -> cm.phase1Complete
      [] phase = 2 -> cm.phase2Complete
      [] OTHER -> cm.phase3Complete

\* CountingSortMonkMode._render: marks holds the class 'correct' or
\* 'incorrect' of the cells of the current phase, which are built anew here;
\* a locked phase has no input
CM_render(cm) ==
    [cm EXCEPT !.marks = IF CM_locked(cm, cm.currentPhase) THEN <<>>
                         ELSE [c \in DOMAIN CM_key(cm, cm.currentPhase) |-> "none"]]

\* CountingSortMonkMode._onInputChange; index counts from 0, value is NULL for
\* an emptied input
CM_onInputChange(cm, phase, index, value) ==
    LET Marked(c) ==
            [c EXCEPT !.marks[index + 1] =
                          IF value = NULL THEN "none"
                          ELSE IF value = CM_key(cm, phase)[index + 1] THEN "correct"
                          ELSE "incorrect"]
    IN CASE phase = 1 -> Marked([cm EXCEPT !.userCountArray[index + 1] = value])
         [] phase = 2 -> Marked([cm EXCEPT !.userCumulativeArray[index + 1] = value])
         [] OTHER -> Marked([cm EXCEPT !.userOutputArray[index + 1] = value])

\* the loop of _checkPhase1, _checkPhase2 and _checkPhase3 over the cells
\* that have an input
CM_grade(cm, user, key) ==
    IF cm.marks = <<>> THEN [marks |-> <<>>, score |-> 0, allCorrect |-> TRUE]
    ELSE [marks |-> [c \in DOMAIN key |-> IF user[c] = key[c] THEN "correct" ELSE "incorrect"],
          score |-> Cardinality({c \in DOMAIN key : user[c] = key[c]}),
          allCorrect |-> \A c \in DOMAIN key : user[c] = key[c]]

\* _checkPhase1 passing the phase as soon as one cell is right
CM_checkPhase1Partial(cm) ==
    LET Graded(g) ==
            IF g.allCorrect \/ g.score > 0
            THEN [cm |-> CM_render([cm EXCEPT !.phase1Complete = TRUE, !.currentPhase = 2]),
                  status |-> Desc("Phase 1 complete! Now fill in the cumulative counts.", <<>>)]
            ELSE [cm |-> [cm EXCEPT !.marks = g.marks],
                  status |-> Desc("correct. Check your count values and try again.",
                                  <<g.score, cm.maxValue + 1>>)]
    IN Graded(CM_grade(cm, cm.userCountArray, cm.countArrayKey))

\* CountingSortMonkMode._checkPhase1; the monk mode and the status line
CM_checkPhase1(cm) ==
    LET Graded(g) ==
            IF g.allCorrect
            THEN [cm |-> CM_render([cm EXCEPT !.phase1Complete = TRUE, !.currentPhase = 2]),
                  status |-> Desc("Phase 1 complete! Now fill in the cumulative counts.", <<>>)]
            ELSE [cm |-> [cm EXCEPT !.marks = g.marks],
                  status |-> Desc("correct. Check your count values and try again.",
                                  <<g.score, cm.maxValue + 1>>)]
    IN Graded(CM_grade(cm, cm.userCountArray, cm.countArrayKey))

\* CountingSortMonkMode._checkPhase2
CM_checkPhase2(cm) ==
    LET Graded(g) ==
            IF g.allCorrect
            THEN [cm |-> CM_render([cm EXCEPT !.phase2Complete = TRUE, !.currentPhase = 3]),
                  status |-> Desc("Phase 2 complete! Now fill in the output array.", <<>>)]
            ELSE [cm |-> [cm EXCEPT !.marks = g.marks],
                  status |-> Desc("correct. Remember: count[i] = count[i] + count[i-1]",
                                  <<g.score, cm.maxValue + 1>>)]
    IN Graded(CM_grade(cm, cm.userCumulativeArray, cm.cumulativeArrayKey))

\* CountingSortMonkMode._checkPhase3
CM_checkPhase3(cm) ==
    LET Graded(g) ==
            IF g.allCorrect
            THEN [cm |-> CM_render([cm EXCEPT !.phase3Complete = TRUE, !.isActive = FALSE]),
                  status |-> Desc("Congratulations! You have successfully completed the Counting Sort algorithm!",
                                  <<>>)]
            ELSE [cm |-> [cm EXCEPT !.marks = g.marks],
                  status |-> Desc("correct. Remember: position = count[value] - 1, then decrement count[value].",
                                  <<g.score, Len(cm.inputArray)>>)]
    IN Graded(CM_grade(cm, cm.userOutputArray, cm.outputArrayKey))

\* CountingSortMonkMode._checkCurrentPhase
CM_checkCurrentPhase(cm) ==
    CASE cm.currentPhase = 1 -> CM_checkPhase1(cm)
      [] cm.currentPhase = 2 -> CM_checkPhase2(cm)
      [] OTHER -> CM_checkPhase3(cm)

\* the first index, from 0, at which the user differs from the key, or NULL
CM_firstWrong(user, key) ==
    IF \A c \in DOMAIN key : user[c] = key[c] THEN NULL
    ELSE (CHOOSE c \in DOMAIN key :
              /\ user[c] # key[c]
              /\ \A b \in 1..(c - 1) : user[b] = key[b]) - 1

\* the hint of phase 1 for the cell i: the occurrences of i in the input
CM_countHint(cm, i) ==
    Desc("Hint: Value appears time(s) in the input array",
         <<i, Cardinality({k \in DOMAIN cm.inputArray : cm.inputArray[k] = i})>>)

\* the hint of phase 2 for the cell i
CM_cumulativeHint(cm, i) ==
    IF i = 0 THEN Desc("Hint: cumulative[0] = count[0]", <<At(cm.countArrayKey, 0)>>)
    ELSE Desc("Hint: cumulative[i] = count[i] + cumulative[i - 1]",
              <<i, At(cm.countArrayKey, i), At(cm.cumulativeArrayKey, i - 1),
                At(cm.cumulativeArrayKey, i)>>)

\* the line written when hint is still empty after the three branches
CM_noHint == Desc("All values look correct! Click Check to verify.", <<>>)

\* CountingSortMonkMode._showHint: the status line it writes
CM_showHint(cm) ==
    LET Hint1(i) == IF i = NULL THEN CM_noHint ELSE CM_countHint(cm, i)
        Hint2(i) == IF i = NULL THEN CM_noHint ELSE CM_cumulativeHint(cm, i)
    IN CASE cm.currentPhase = 1 -> Hint1(CM_firstWrong(cm.userCountArray, cm.countArrayKey))
         [] cm.currentPhase = 2 -> Hint2(CM_firstWrong(cm.userCumulativeArray, cm.cumulativeArrayKey))
         [] OTHER -> Desc("Hint: Traverse input array from RIGHT to LEFT.",
                          <<cm.inputArray[Len(cm.inputArray)]>>)

\* the solver runs of the inputs above, computed once
KnapsackRuns == [d \in KnapsackInputs |-> AC_solveGrid("knapsack", d)]
LCSRuns == [d \in LCSInputs |-> AC_solveGrid("lcs", d)]
HeapRuns == [d \in HeapInputs |-> AC_solveHeap(d)]
CSRuns == [a \in CSInputs |-> CS_solve(CountingSortSolver(a))]
StrassenRuns == [d \in StrassenInputs |-> ST_solve(StrassenSolver(d.A, d.B))]

(***************************************************************************)
(* State                                                                   *)
(*  algo     the algorithm tab (state.algo); it selects the player that    *)
(*           the playback controls address                                 *)
(*  fields   the data in the input fields, as _getDataFromInputs reads it  *)
(*  viz, heapViz, csViz, stViz   the four players                          *)
(*  app      the AppController's state: mode, lastSolvedDp, lastAlgoData   *)
(*  tb       the TracebackManager                                          *)
(*  walkers  the animated tracebacks suspended in their delay              *)
(*  op       the handler that ran last, whether it moved the cursor and    *)
(*           whether the player was playing when it was called; for a run  *)
(*           that the user starts with play() and then leaves alone (away) *)
(*           also the cursor at that play() (from), the step indices       *)
(*           executed since (hist), and a twin of the player that is       *)
(*           advanced by one next() for every step the run executes        *)
(***************************************************************************)
VARIABLES algo, fields, op, viz, heapViz, csViz, stViz, app, tb, walkers, solvers

vars == <<algo, fields, op, viz, heapViz, csViz, stViz, app, tb, walkers, solvers>>

Algos == {"knapsack", "lcs", "heap", "countingsort", "strassen"}

Op(name, moved, wasPlaying) ==
    [name |-> name, moved |-> moved, wasPlaying |-> wasPlaying,
     away |-> FALSE, from |-> 0, hist |-> <<>>, twin |-> <<>>]

\* a handler starts with an empty list of executed steps
Begin(v) == [v EXCEPT !.ran = <<>>]
BeginGrid(v) == [v EXCEPT !.ran = <<>>, !.error = FALSE]

\* this.state and the objects the AppController owns, as far as the handlers
\* modelled here read or write them.  A field that can be null is <<>> for
\* null and <<x>> for the value x.  statusText is the text of the element
\* 'status-text', which the controller, the three players, the traceback
\* and the counting-sort monk mode all write; insertValue the content of the
\* insert-value box; enableTimers the pending 500 ms timers of
\* _startMonkMode; live the player whose steps the last Start loaded, "none"
\* after a tab change or a Start that loaded none; ops the number of user
\* operations so far.
AppState ==
    [mode |-> "visualize", data |-> <<>>, lastSolvedDp |-> <<>>, lastAlgoData |-> <<>>,
     isSimulationComplete |-> FALSE, tracebackBtnDisabled |-> TRUE,
     heapData |-> <<>>, heapOperation |-> "build", insertValue |-> 1,
     countingSortData |-> <<>>,
     heapVisualizer |-> FALSE, countingSortVisualizer |-> FALSE,
     monkMode |-> [currentAlgo |-> "none", answerKey |-> <<>>],
     heapMonkMode |-> <<>>, countingSortMonkMode |-> <<>>,
     statusText |-> NoText, enableTimers |-> 0, live |-> "none", ops |-> 0]

InitPlayers ==
    /\ viz = Visualizer
    /\ heapViz = HeapVisualizer
    /\ csViz = CountingSortVisualizer
    /\ stViz = StrassenVisualizer
    /\ solvers = <<>>
    /\ op = Op("init", FALSE, FALSE)
    /\ app = AppState
    /\ tb = TracebackManager
    /\ walkers = <<>>

FieldsOf(a) ==
    CASE a = "knapsack" -> KnapsackInputs
      [] a = "lcs" -> LCSInputs
      [] a = "heap" -> HeapArrays
      [] a = "countingsort" -> CSInputs
      [] OTHER -> StrassenInputs

Init ==
    /\ algo \in Algos
    /\ fields \in FieldsOf(algo)
    /\ InitPlayers

IsGrid == algo \in {"knapsack", "lcs"}

GridDo(name, v) ==
    /\ IsGrid
    /\ viz' = v
    /\ op' = Op(name, v.currentStepIndex # viz.currentStepIndex, viz.isPlaying)
    /\ UNCHANGED <<algo, fields, app, tb, walkers, heapViz, csViz, stViz, solvers>>

HeapDo(name, v) ==
    /\ algo = "heap"
    /\ heapViz' = v
    /\ op' = Op(name, v.currentStepIndex # heapViz.currentStepIndex, heapViz.isPlaying)
    /\ UNCHANGED <<algo, fields, app, tb, walkers, viz, csViz, stViz, solvers>>

CSDo(name, v) ==
    /\ algo = "countingsort"
    /\ csViz' = v
    /\ op' = Op(name, v.currentStepIndex # csViz.currentStepIndex, csViz.isPlaying)
    /\ UNCHANGED <<algo, fields, app, tb, walkers, viz, heapViz, stViz, solvers>>

STDo(name, v) ==
    /\ algo = "strassen"
    /\ stViz' = v
    /\ op' = Op(name, v.currentStep # stViz.currentStep, stViz.isPlaying)
    /\ UNCHANGED <<algo, fields, app, tb, walkers, viz, heapViz, csViz, solvers>>

(* ---------------------------- grid player ----------------------------- *)
GridRun == IF algo = "knapsack" THEN KnapsackRuns[fields] ELSE LCSRuns[fields]
GridLoad == GridDo("load", AC_startVisualization(BeginGrid(viz), GridRun))
GridPlay == CanSchedule(viz) /\ GridDo("play", V_play(BeginGrid(viz)))
GridPause == GridDo("pause", V_pause(BeginGrid(viz)))
GridNext == GridDo("next", V_next(BeginGrid(viz)))
GridPrev == GridDo("prev", V_prev(BeginGrid(viz)))
GridSetSpeed == \E ms \in Speeds : ms # viz.speed /\ GridDo("setSpeed", V_setSpeed(BeginGrid(viz), ms))
GridTick == \E id \in viz.timeouts : GridDo("tick", V_timeout(BeginGrid(viz), id))

(* ---------------------------- heap player ----------------------------- *)
HeapLoad ==
    \E d \in HeapInputs :
        /\ algo = "heap"
        /\ d.array = fields
        /\ HeapDo("load", AC_showHeap(Begin(heapViz), d, HeapRuns[d]))
HeapPlay == CanSchedule(heapViz) /\ HeapDo("play", HV_play(Begin(heapViz)))
HeapPause == HeapDo("pause", HV_pause(Begin(heapViz)))
HeapNext == HeapDo("next", HV_next(Begin(heapViz)))
HeapPrev == HeapDo("prev", HV_prev(Begin(heapViz)))
HeapSetSpeed == \E ms \in Speeds : ms # heapViz.speed /\ HeapDo("setSpeed", HV_setSpeed(Begin(heapViz), ms))
HeapTick == \E id \in heapViz.timeouts : HeapDo("tick", HV_timeout(Begin(heapViz), id))

(* ------------------------ counting-sort player ------------------------ *)
CSLoad == CSDo("load", AC_showCountingSort(Begin(csViz), fields, CSRuns[fields]))
CSPlay == CanSchedule(csViz) /\ CSDo("play", CV_play(Begin(csViz)))
CSPause == CSDo("pause", CV_pause(Begin(csViz)))
CSNext == CSDo("next", CV_next(Begin(csViz)))
CSPrev == CSDo("prev", CV_prev(Begin(csViz)))
CSSetSpeed == \E ms \in Speeds : ms # csViz.speed /\ CSDo("setSpeed", CV_setSpeed(Begin(csViz), ms))
CSTick == \E id \in csViz.timeouts : CSDo("tick", CV_timeout(Begin(csViz), id))

(* -------------------------- Strassen player --------------------------- *)
STLoad == STDo("load", SV_init(stViz, StrassenRuns[fields].steps, fields.A, fields.B))
STPlay == CanSchedule(stViz) /\ STDo("play", SV_play(stViz))
STPause == STDo("pause", SV_pause(stViz))
STNext == STDo("next", SV_stepForward(stViz).v)
STPrev == STDo("prev", SV_stepBackward(stViz).v)
STSetSpeed == \E ms \in Speeds : ms # stViz.speed /\ STDo("setSpeed", SV_setSpeed(stViz, ms))
STTick == \E id \in stViz.timeouts : STDo("tick", SV_timeout(stViz, id))

Next ==
    \/ GridLoad \/ GridPlay \/ GridPause \/ GridNext \/ GridPrev \/ GridSetSpeed \/ GridTick
    \/ HeapLoad \/ HeapPlay \/ HeapPause \/ HeapNext \/ HeapPrev \/ HeapSetSpeed \/ HeapTick
    \/ CSLoad \/ CSPlay \/ CSPause \/ CSNext \/ CSPrev \/ CSSetSpeed \/ CSTick
    \/ STLoad \/ STPlay \/ STPause \/ STNext \/ STPrev \/ STSetSpeed \/ STTick

Spec == Init /\ [][Next]_vars

(***************************************************************************)
(* Unattended play: the user loads a trace and steps through it at will,   *)
(* then calls play() and touches nothing more; from then on only the timer *)
(* callbacks run.  The browser runs every pending callback, hence the weak *)
(* fairness of the ticks.                                                  *)
(***************************************************************************)
Operate ==
    /\ ~op.away
    /\ \/ GridLoad \/ GridNext \/ GridPrev \/ GridSetSpeed
       \/ HeapLoad \/ HeapNext \/ HeapPrev \/ HeapSetSpeed
       \/ CSLoad \/ CSNext \/ CSPrev \/ CSSetSpeed

PlayerNext(v) == CASE IsGrid -> V_next(v) [] algo = "heap" -> HV_next(v) [] OTHER -> CV_next(v)

Left(name, v, w) ==
    LET twin == IF op.away THEN op.twin[1] ELSE PlayerNext(v)
    IN [name |-> name, moved |-> w.currentStepIndex # v.currentStepIndex,
        wasPlaying |-> v.isPlaying, away |-> TRUE,
        from |-> IF op.away THEN op.from ELSE v.currentStepIndex,
        hist |-> (IF op.away THEN op.hist ELSE <<>>) \o w.ran,
        twin |-> <<IF w.ran # <<>> /\ op.away THEN PlayerNext(twin) ELSE twin>>]

GridLeave ==
    /\ ~op.away /\ IsGrid /\ CanSchedule(viz)
    /\ viz' = V_play(BeginGrid(viz))
    /\ op' = Left("play", viz, viz')
    /\ UNCHANGED <<algo, fields, app, tb, walkers, heapViz, csViz, stViz, solvers>>

GridAwayTick ==
    /\ op.away /\ IsGrid
    /\ \E id \in viz.timeouts : viz' = V_timeout(BeginGrid(viz), id)
    /\ op' = Left("tick", viz, viz')
    /\ UNCHANGED <<algo, fields, app, tb, walkers, heapViz, csViz, stViz, solvers>>

HeapLeave ==
    /\ ~op.away /\ algo = "heap" /\ CanSchedule(heapViz)
    /\ heapViz' = HV_play(Begin(heapViz))
    /\ op' = Left("play", heapViz, heapViz')
    /\ UNCHANGED <<algo, fields, app, tb, walkers, viz, csViz, stViz, solvers>>

HeapAwayTick ==
    /\ op.away /\ algo = "heap"
    /\ \E id \in heapViz.timeouts : heapViz' = HV_timeout(Begin(heapViz), id)
    /\ op' = Left("tick", heapViz, heapViz')
    /\ UNCHANGED <<algo, fields, app, tb, walkers, viz, csViz, stViz, solvers>>

CSLeave ==
    /\ ~op.away /\ algo = "countingsort" /\ CanSchedule(csViz)
    /\ csViz' = CV_play(Begin(csViz))
    /\ op' = Left("play", csViz, csViz')
    /\ UNCHANGED <<algo, fields, app, tb, walkers, viz, heapViz, stViz, solvers>>

CSAwayTick ==
    /\ op.away /\ algo = "countingsort"
    /\ \E id \in csViz.timeouts : csViz' = CV_timeout(Begin(csViz), id)
    /\ op' = Left("tick", csViz, csViz')
    /\ UNCHANGED <<algo, fields, app, tb, walkers, viz, heapViz, stViz, solvers>>

AwayTick == GridAwayTick \/ HeapAwayTick \/ CSAwayTick

NextPlay ==
    \/ Operate
    \/ GridLeave \/ HeapLeave \/ CSLeave
    \/ GridAwayTick \/ HeapAwayTick \/ CSAwayTick

SpecPlay == Init /\ [][NextPlay]_vars /\ WF_vars(AwayTick)

(***************************************************************************)
(* Traceback of a solved table: the user runs the simulation of a table    *)
(* algorithm, starts, restarts and closes the animated traceback, and the  *)
(* delays of the suspended walks resolve in any order.                     *)
(***************************************************************************)
\* _resetSimulationState: the state fields (hasCustomHeap is never set
\* here), then stopTraceback
AC_resetSimulationState(a) ==
    [a EXCEPT !.data = <<>>, !.lastSolvedDp = <<>>, !.lastAlgoData = <<>>, !.heapData = <<>>,
              !.isSimulationComplete = FALSE, !.tracebackBtnDisabled = TRUE]

\* every walk suspended now was started before the handler that runs
Abandon(ws) == [k \in 1..Len(ws) |-> [ws[k] EXCEPT !.stale = TRUE]]

RemoveAt(q, k) == SubSeq(q, 1, k - 1) \o SubSeq(q, k + 1, Len(q))

TraceDo(name, m, a, ws) ==
    /\ IsGrid
    /\ viz' = m.viz
    /\ tb' = m.tb
    /\ app' = a
    /\ walkers' = ws
    /\ op' = Op(name, FALSE, FALSE)
    /\ UNCHANGED <<algo, fields, heapViz, csViz, stViz, solvers>>

\* _runSimulation in visualize mode on a table algorithm; run is the solved
\* input
TraceRunOf(run) ==
    LET m1 == TB_stopTraceback(TB_stopTraceback([tb |-> tb, viz |-> BeginGrid(viz)]))
        a1 == AC_resetSimulationState(app)
    IN TraceDo("run", [m1 EXCEPT !.viz = AC_startVisualization(m1.viz, run)],
               [a1 EXCEPT !.lastSolvedDp = <<run.result.dp>>, !.lastAlgoData = <<fields>>,
                          !.tracebackBtnDisabled = FALSE, !.isSimulationComplete = TRUE],
               Abandon(walkers))

TraceRun == TraceRunOf(GridRun)

\* _startTraceback
TraceStart ==
    LET m0 == [tb |-> tb, viz |-> BeginGrid(viz)] IN
    IF app.lastSolvedDp = <<>> \/ app.lastAlgoData = <<>>
    THEN TraceDo("refused",
                 [m0 EXCEPT !.viz.explanation =
                      Desc("Please complete the simulation first before tracing back.", <<>>)],
                 app, walkers)
    ELSE /\ Len(walkers) < MaxWalkers
         /\ LET m1 == TB_init(TB_stopTraceback(m0), algo, app.lastSolvedDp[1], app.lastAlgoData[1],
                              app.mode = "monk")
                r == TB_startTraceback(m1)
            IN TraceDo("start", r.m, app,
                       Abandon(walkers) \o (IF r.asleep THEN <<r.wk>> ELSE <<>>))

\* the close button of the traceback card
TraceStop ==
    TraceDo("stop", TB_stopTraceback([tb |-> tb, viz |-> BeginGrid(viz)]), app, Abandon(walkers))

\* the delay of a suspended walk resolves
TraceHop ==
    \E k \in 1..Len(walkers) :
        LET r == TB_resume([tb |-> tb, viz |-> BeginGrid(viz)], walkers[k])
        IN TraceDo(IF walkers[k].stale THEN "staleHop" ELSE "hop", r.m, app,
                   IF r.asleep THEN [walkers EXCEPT ![k] = r.wk] ELSE RemoveAt(walkers, k))

NextTrace == TraceRun \/ TraceStart \/ TraceStop \/ TraceHop

InitTrace == Init /\ IsGrid

SpecTrace == InitTrace /\ [][NextTrace]_vars

(***************************************************************************)
(* The whole application (src/app/appController.js): the tabs, the mode    *)
(* toggle, the heap operation buttons, Start, the playback buttons and     *)
(* keys, the traceback button, and the timers of the three players, of     *)
(* _startMonkMode and of the traceback.  The handlers work on the world w, *)
(* the record of the variables.  The size and text boxes are edited by the *)
(* program only, so the data _populateRandomData stored always matches     *)
(* them.  Arrays have two elements here, not 5 to 15.                      *)
(***************************************************************************)
AppAlgos == {"knapsack", "lcs", "heap", "countingsort"}

\* what the random generators can return
Random(a) ==
    CASE a = "knapsack" -> {d \in KnapsackInputs : Len(d.weights) = 2}
      [] a = "lcs" -> {d \in LCSInputs : Len(d.s1) = 2}
      [] a = "heap" -> {<<1, 2>>, <<2, 1>>}
      [] OTHER -> {<<1, 0>>, <<0, 1>>}

World ==
    [algo |-> algo, fields |-> fields, app |-> app, viz |-> viz, heapViz |-> heapViz,
     csViz |-> csViz, tb |-> tb, walkers |-> walkers]

\* the element 'status-text' is the status line of every component: a
\* component is handed the current text and what it leaves is the new text
GridIn(w) == [w.viz EXCEPT !.explanation = w.app.statusText]
GridOut(w, v) == [w EXCEPT !.viz = v, !.app.statusText = v.explanation]
HeapIn(w) == [w.heapViz EXCEPT !.status = w.app.statusText]
HeapOut(w, v) == [w EXCEPT !.heapViz = v, !.app.statusText = v.status]
CSIn(w) == [w.csViz EXCEPT !.status = w.app.statusText]
CSOut(w, v) == [w EXCEPT !.csViz = v, !.app.statusText = v.status]
TBIn(w) == [tb |-> w.tb, viz |-> GridIn(w)]
TBOut(w, m) == [GridOut(w, m.viz) EXCEPT !.tb = m.tb]

\* AppController._updateStatus
App_updateStatus(w, text) == [w EXCEPT !.app.statusText = text]

\* tracebackManager.stopTraceback()
App_stopTraceback(w) ==
    [TBOut(w, TB_stopTraceback(TBIn(w))) EXCEPT !.walkers = Abandon(@)]

\* _resetSimulationState
App_resetSimulationState(w) ==
    App_stopTraceback([w EXCEPT !.app = AC_resetSimulationState(@)])

\* _resetHeapStats: the three counters the heap player also writes
App_resetHeapStats(w) == [w EXCEPT !.heapViz.statsShown = ZeroHeapStats]

\* _populateRandomData; d is what the generator returned
App_populateRandomData(w, d) ==
    CASE w.algo = "knapsack" -> [w EXCEPT !.app.data = <<d>>]
      [] w.algo = "lcs" -> [w EXCEPT !.app.data = <<d>>, !.fields = d]
      [] w.algo = "heap" -> [w EXCEPT !.app.heapData = <<d>>]
      [] OTHER -> [w EXCEPT !.app.countingSortData = <<d>>]

\* _getDataFromInputs; d is what the generator returns if it is called
App_getDataFromInputs(w, d) ==
    CASE w.algo = "knapsack" ->
             IF w.app.data # <<>> THEN [w |-> w, data |-> w.app.data[1]]
             ELSE [w |-> [w EXCEPT !.app.data = <<d>>], data |-> d]
      [] w.algo = "lcs" -> [w |-> w, data |-> w.fields]
      [] w.algo = "countingsort" ->
             IF w.app.countingSortData # <<>> THEN [w |-> w, data |-> w.app.countingSortData[1]]
             ELSE [w |-> [w EXCEPT !.app.countingSortData = <<d>>], data |-> d]
      [] OTHER ->
             IF w.app.heapData # <<>> THEN [w |-> w, data |-> w.app.heapData[1]]
             ELSE [w |-> [w EXCEPT !.app.heapData = <<d>>], data |-> d]

\* visualizer.resetVisuals()
App_resetVisuals(w) == GridOut(w, V_resetVisuals(GridIn(w)))

\* _onTabChange; emptying the grid container detaches the cells, which
\* this.cells of the grid player still holds
App_onTabChange(w, a, d) ==
    App_populateRandomData(
        [App_resetVisuals(App_stopTraceback(App_resetHeapStats(
             App_resetSimulationState([w EXCEPT !.algo = a]))))
            EXCEPT !.app.live = "none"], d)

\* _startVisualization once the solver has returned b
App_showGrid(w, data, b) ==
    GridOut([w EXCEPT !.app.lastSolvedDp = <<b.result.dp>>, !.app.lastAlgoData = <<data>>,
                      !.app.tracebackBtnDisabled = FALSE, !.app.isSimulationComplete = TRUE,
                      !.app.live = "grid"],
            AC_startVisualization(GridIn(w), b))

\* _startVisualization
App_startVisualization(w, data) == App_showGrid(w, data, AC_solveGrid(w.algo, data))

\* _startMonkMode once the solver has returned dp and startLevel r; the
\* callback of its timer is EnableTraceback
App_monkLevel(w, data, dp, r) ==
    [w EXCEPT !.app.lastSolvedDp = <<dp>>, !.app.lastAlgoData = <<data>>,
              !.app.monkMode = r.mm, !.app.enableTimers = @ + 1,
              !.viz = r.v,
              !.app.statusText = Desc("In Monk Mode. Click a cell and type the correct value.", <<>>)]

\* _startMonkMode
App_startMonkMode(w, data) ==
    App_monkLevel(w, data, AC_solveGrid(w.algo, data).result.dp,
                  MM_startLevel(w.app.monkMode, GridIn(w), w.algo, data))

\* const operationData of _runHeapSimulation
App_operationData(w, array) ==
    [array |-> array, operation |-> w.app.heapOperation,
     insertValue |-> IF w.app.heapOperation = "insert" THEN w.app.insertValue ELSE UNDEF]

\* the heap monk mode of _runHeapSimulation: created, or reset
App_heapMonkMode(w) ==
    IF w.app.heapMonkMode = <<>>
    THEN [hm |-> HeapMonkMode, hv |-> HeapIn(w)]
    ELSE HM_reset(w.app.heapMonkMode[1], HeapIn(w))

\* _runHeapSimulation, monk branch, after startLevel returned r or threw
App_heapLevel(w, data, r) ==
    IF r.error THEN [HeapOut(w, r.hv) EXCEPT !.app.heapMonkMode = <<r.hm>>]
    ELSE [HeapOut(w, r.hv)
             EXCEPT !.app.heapMonkMode = <<r.hm>>, !.app.isSimulationComplete = TRUE,
                    !.app.statusText =
                        CASE data.operation = "build" ->
                                 Desc("Monk Mode: Build the max-heap by clicking nodes to swap.",
                                      <<r.totalSwaps>>)
                          [] data.operation = "extract" ->
                                 Desc("Monk Mode: Extract maximum element.", <<r.totalSwaps>>)
                          [] OTHER ->
                                 Desc("Monk Mode: Insert into heap.",
                                      <<data.insertValue, r.totalSwaps>>)]

\* _runHeapSimulation, visualize branch, h the monk mode after its reset
App_heapShown(w, data, h) ==
    [HeapOut(w, AC_showHeap(h.hv, data, AC_solveHeap(data)))
        EXCEPT !.app.heapMonkMode = IF @ = <<>> THEN @ ELSE <<h.hm>>,
               !.app.isSimulationComplete = TRUE, !.app.live = "heap"]

\* _runHeapSimulation after the player exists and the counters are reset.
\* When startLevel throws, the handler ends there.
App_heapBranch(w, data, h) ==
    IF w.app.mode = "monk" THEN App_heapLevel(w, data, HM_startLevel(h.hm, h.hv, data))
    ELSE App_heapShown(w, data, h)

App_heapRun(w, array) == App_heapBranch(w, App_operationData(w, array), App_heapMonkMode(w))

\* _runHeapSimulation
App_runHeapSimulation(w, array) ==
    App_heapRun(App_resetHeapStats([w EXCEPT !.app.heapVisualizer = TRUE]), array)

\* _runCountingSortSimulation, monk branch, after startLevel returned r
App_csLevel(w, r) ==
    [w EXCEPT !.csViz = IF w.app.countingSortVisualizer THEN CV_pause(@) ELSE @,
              !.app.statusText = r.status,
              !.app.countingSortMonkMode = <<r.cm>>, !.app.isSimulationComplete = TRUE]

\* _runCountingSortSimulation, visualize branch
App_csShown(w, array) ==
    [CSOut(w, AC_showCountingSort(CSIn(w), array, CS_solve(CountingSortSolver(array))))
        EXCEPT !.app.countingSortVisualizer = TRUE,
               !.app.countingSortMonkMode = IF @ = <<>> THEN @ ELSE <<CM_reset(@[1])>>,
               !.app.isSimulationComplete = TRUE, !.app.live = "countingsort"]

\* _runCountingSortSimulation
App_runCountingSortSimulation(w, array) ==
    IF w.app.mode = "monk"
    THEN App_csLevel(w, CM_startLevel(IF w.app.countingSortMonkMode = <<>>
                                      THEN CountingSortMonkMode
                                      ELSE w.app.countingSortMonkMode[1], array))
    ELSE App_csShown(w, array)

\* _runSimulation after _resetSimulationState
App_dispatch(w, data) ==
    CASE w.algo = "heap" -> App_runHeapSimulation(w, data)
      [] w.algo = "countingsort" -> App_runCountingSortSimulation(w, data)
      [] w.app.mode = "monk" ->
             App_startMonkMode(App_stopTraceback([w EXCEPT !.app.tracebackBtnDisabled = TRUE]), data)
      [] OTHER ->
             App_startVisualization(App_stopTraceback([w EXCEPT !.app.tracebackBtnDisabled = TRUE]),
                                    data)

\* _runSimulation after _getDataFromInputs returned g
App_run(g) == App_dispatch(App_resetSimulationState([g.w EXCEPT !.app.live = "none"]), g.data)

\* _runSimulation
App_runSimulation(w, d) == App_run(App_getDataFromInputs(w, d))

\* _handleModeToggle after this.state.mode is set
App_modeSet(w, d) ==
    IF CASE w.algo = "heap" -> w.app.heapData # <<>>
         [] w.algo = "countingsort" -> w.app.countingSortData # <<>>
         [] OTHER -> w.app.data # <<>>
    THEN App_runSimulation(w, d) ELSE w

\* _handleModeToggle
App_handleModeToggle(w, mode, d) == App_modeSet([w EXCEPT !.app.mode = mode], d)

\* the player that _play, _pause, _stepForward and _stepBackward address
Addressed(w) ==
    CASE w.algo = "heap" /\ w.app.heapVisualizer -> "heap"
      [] w.algo = "countingsort" /\ w.app.countingSortVisualizer -> "countingsort"
      [] OTHER -> "grid"

\* _play, _pause, _stepForward, _stepBackward
App_play(w) ==
    CASE Addressed(w) = "heap" -> HeapOut(w, HV_play(HeapIn(w)))
      [] Addressed(w) = "countingsort" -> CSOut(w, CV_play(CSIn(w)))
      [] OTHER -> GridOut(w, V_play(GridIn(w)))

App_pause(w) ==
    CASE Addressed(w) = "heap" -> HeapOut(w, HV_pause(HeapIn(w)))
      [] Addressed(w) = "countingsort" -> CSOut(w, CV_pause(CSIn(w)))
      [] OTHER -> GridOut(w, V_pause(GridIn(w)))

App_stepForward(w) ==
    CASE Addressed(w) = "heap" -> HeapOut(w, HV_next(HeapIn(w)))
      [] Addressed(w) = "countingsort" -> CSOut(w, CV_next(CSIn(w)))
      [] OTHER -> GridOut(w, V_next(GridIn(w)))

App_stepBackward(w) ==
    CASE Addressed(w) = "heap" -> HeapOut(w, HV_prev(HeapIn(w)))
      [] Addressed(w) = "countingsort" -> CSOut(w, CV_prev(CSIn(w)))
      [] OTHER -> GridOut(w, V_prev(GridIn(w)))

\* the Space key: _toggleHeapPlay, _toggleCountingSortPlay, _toggleDpPlay
App_togglePlay(w) ==
    CASE w.algo = "heap" ->
             IF ~w.app.heapVisualizer THEN w
             ELSE IF w.heapViz.isPlaying THEN HeapOut(w, HV_pause(HeapIn(w)))
             ELSE HeapOut(w, HV_play(HeapIn(w)))
      [] w.algo = "countingsort" ->
             IF ~w.app.countingSortVisualizer THEN w
             ELSE IF w.csViz.isPlaying THEN CSOut(w, CV_pause(CSIn(w)))
             ELSE CSOut(w, CV_play(CSIn(w)))
      [] OTHER ->
             IF w.viz.isPlaying THEN GridOut(w, V_pause(GridIn(w)))
             ELSE GridOut(w, V_play(GridIn(w)))

\* _startTraceback after stopTraceback and init, r what startTraceback did
App_walk(w, r) ==
    [TBOut(w, r.m) EXCEPT !.walkers = @ \o (IF r.asleep THEN <<r.wk>> ELSE <<>>)]

App_traceFrom(w) ==
    App_walk(w, TB_startTraceback(TB_init(TBIn(w), w.algo, w.app.lastSolvedDp[1],
                                          w.app.lastAlgoData[1], w.app.mode = "monk")))

\* _startTraceback
App_startTraceback(w) ==
    IF w.app.lastSolvedDp = <<>> \/ w.app.lastAlgoData = <<>>
    THEN App_updateStatus(w, Desc("Please complete the simulation first before tracing back.", <<>>))
    ELSE App_traceFrom(App_stopTraceback(w))

\* a handler starts with empty lists of executed steps
Fresh(w) == [w EXCEPT !.viz = BeginGrid(@), !.heapViz = Begin(@), !.csViz = Begin(@)]

\* the world a user operation starts in
User == [Fresh(World) EXCEPT !.app.ops = @ + 1]

AppDo(name, w) ==
    /\ algo' = w.algo
    /\ fields' = w.fields
    /\ app' = w.app
    /\ viz' = w.viz
    /\ heapViz' = w.heapViz
    /\ csViz' = w.csViz
    /\ tb' = w.tb
    /\ walkers' = w.walkers
    /\ op' = Op(name, FALSE, FALSE)
    /\ UNCHANGED <<stViz, solvers>>

\* the name of a handler that ran _runSimulation: a monk level is started
\* in monk mode unless startLevel threw
RunName(w) ==
    IF w.app.mode # "monk" THEN "run"
    ELSE IF w.algo \in {"knapsack", "lcs"} \/ w.app.isSimulationComplete THEN "startLevel"
    ELSE "threw"

\* the frame of a handler that ran _runSimulation
AppRan(w) == AppDo(RunName(w), w)

\* the frame of _handleModeToggle, which ran _runSimulation if it had data
AppToggled(w) ==
    AppDo(IF w.app.live = app.live /\ w.app.isSimulationComplete = app.isSimulationComplete
             /\ w.app.statusText = app.statusText /\ w.app.enableTimers = app.enableTimers
          THEN "mode" ELSE RunName(w), w)

AppTab ==
    /\ app.ops < MaxOps
    /\ \E a \in AppAlgos : \E d \in Random(a) : AppDo("tab", App_onTabChange(User, a, d))

\* the Start button and the R key
AppRun ==
    /\ app.ops < MaxOps
    /\ \E d \in Random(algo) : AppRan(App_runSimulation(User, d))

AppMode ==
    /\ app.ops < MaxOps
    /\ \E mode \in {"visualize", "monk"} : \E d \in Random(algo) :
           AppToggled(App_handleModeToggle(User, mode, d))

AppHeapOperation ==
    /\ app.ops < MaxOps
    /\ algo = "heap"
    /\ \E o \in {"build", "extract", "insert"} :
           AppDo("heapOperation", [User EXCEPT !.app.heapOperation = o])

\* the playback buttons are dead in monk mode, the keys are not
AppPlay ==
    /\ app.ops < MaxOps
    /\ app.mode = "visualize"
    /\ CanSchedule(viz) /\ CanSchedule(heapViz) /\ CanSchedule(csViz)
    /\ AppDo("play", App_play(User))

AppPause ==
    /\ app.ops < MaxOps
    /\ app.mode = "visualize"
    /\ AppDo("pause", App_pause(User))

AppStepForward == app.ops < MaxOps /\ AppDo("stepForward", App_stepForward(User))

AppStepBackward == app.ops < MaxOps /\ AppDo("stepBackward", App_stepBackward(User))

AppSpace ==
    /\ app.ops < MaxOps
    /\ CanSchedule(viz) /\ CanSchedule(heapViz) /\ CanSchedule(csViz)
    /\ AppDo("space", App_togglePlay(User))

AppTraceback ==
    /\ app.ops < MaxOps
    /\ ~app.tracebackBtnDisabled
    /\ app.mode = "visualize"
    /\ Len(walkers) < MaxWalkers
    /\ AppDo("traceback", App_startTraceback(User))

\* the timers
AppGridTicked(w, id) == AppDo("gridTick", GridOut(w, V_timeout(GridIn(w), id)))
AppGridTick == \E id \in viz.timeouts : AppGridTicked(Fresh(World), id)

AppHeapTicked(w, id) == AppDo("heapTick", HeapOut(w, HV_timeout(HeapIn(w), id)))
AppHeapTick == \E id \in heapViz.timeouts : AppHeapTicked(Fresh(World), id)

AppCSTicked(w, id) == AppDo("csTick", CSOut(w, CV_timeout(CSIn(w), id)))
AppCSTick == \E id \in csViz.timeouts : AppCSTicked(Fresh(World), id)

\* the callback of the timer of _startMonkMode
EnableTraceback ==
    /\ app.enableTimers > 0
    /\ AppDo("enable", [Fresh(World) EXCEPT !.app.enableTimers = @ - 1,
                                            !.app.tracebackBtnDisabled = FALSE,
                                            !.app.isSimulationComplete = TRUE])

AppHopped(w, k, r) ==
    AppDo("hop", [TBOut(w, r.m) EXCEPT !.walkers =
                      IF r.asleep THEN [@ EXCEPT ![k] = r.wk] ELSE RemoveAt(@, k)])

AppTraceHop ==
    \E k \in 1..Len(walkers) :
        AppHopped(Fresh(World), k, TB_resume(TBIn(Fresh(World)), walkers[k]))

NextApp ==
    \/ AppTab \/ AppRun \/ AppMode \/ AppHeapOperation
    \/ AppPlay \/ AppPause \/ AppStepForward \/ AppStepBackward \/ AppSpace \/ AppTraceback
    \/ AppGridTick \/ AppHeapTick \/ AppCSTick \/ EnableTraceback \/ AppTraceHop

\* the constructor: the knapsack tab, visualize mode, random knapsack data;
\* the LCS boxes hold what the page gives them
InitApp ==
    /\ algo = "knapsack"
    /\ fields \in Random("lcs")
    /\ \E d \in Random("knapsack") : app = [AppState EXCEPT !.data = <<d>>]
    /\ viz = Visualizer
    /\ heapViz = HeapVisualizer
    /\ csViz = CountingSortVisualizer
    /\ stViz = StrassenVisualizer
    /\ solvers = <<>>
    /\ tb = TracebackManager
    /\ walkers = <<>>
    /\ op = Op("init", FALSE, FALSE)

SpecApp == InitApp /\ [][NextApp]_vars

(***************************************************************************)
(* The heap monk mode in the application: the level is started by the      *)
(* Start button in monk mode, the nodes of the tree are clicked             *)
(* (src/components/heap/monkMode.js, src/app/appController.js)              *)
(***************************************************************************)
MonkHeapArrays == SeqsUpTo(1..HeapMaxVal, HeapMaxLen + 1)

\* the number of user operations of a behaviour in a monk mode
MaxMonkOps == 6

\* the frame of a handler that leaves the world w, recorded as o
DoAs(w, o) ==
    /\ algo' = w.algo
    /\ fields' = w.fields
    /\ app' = w.app
    /\ viz' = w.viz
    /\ heapViz' = w.heapViz
    /\ csViz' = w.csViz
    /\ tb' = w.tb
    /\ walkers' = w.walkers
    /\ op' = o
    /\ UNCHANGED <<stViz, solvers>>

\* the frame of a handler of a monk mode; index is the node or cell it is about
HMDo(name, w, index) == DoAs(w, [Op(name, FALSE, FALSE) EXCEPT !.from = index])

\* the frame of a click on the cell rc of the grid
CellDo(name, w, rc) == DoAs(w, [Op(name, FALSE, FALSE) EXCEPT !.hist = rc])

\* the monk mode and the player it draws on, and the world they leave
HM_in(w) == [hm |-> w.app.heapMonkMode[1], hv |-> HeapIn(w)]
HM_out(w, h) == [HeapOut(w, h.hv) EXCEPT !.app.heapMonkMode = <<h.hm>>]

HMOperation ==
    /\ app.ops < MaxMonkOps
    /\ \/ \E o \in {"build", "extract"} :
              HMDo("heapOperation", [User EXCEPT !.app.heapOperation = o], 0)
       \/ \E x \in 1..HeapMaxVal :
              HMDo("heapOperation",
                   [User EXCEPT !.app.heapOperation = "insert", !.app.insertValue = x], 0)

HMStarted(w) == HMDo(RunName(w), w, 0)

\* Start: the array is the one shown, or a random one when none is kept
HMStart ==
    /\ app.ops < MaxMonkOps
    /\ \E d \in MonkHeapArrays :
           /\ app.heapData # <<>> => d = app.heapData[1]
           /\ HMStarted(App_runSimulation(User, d))

HMClick ==
    /\ app.ops < MaxMonkOps
    /\ app.heapMonkMode # <<>>
    /\ \E index \in 0..(Len(heapViz.dom) - 1) :
           HMDo("click", HM_out(User, HM_click(HM_in(User), index)), index)

NextHeapMonk == HMOperation \/ HMStart \/ HMClick

\* the heap monk mode reads the array kept in heapData and never the text
\* fields, which hold one of the random strings
InitHeapMonk ==
    /\ algo = "heap"
    /\ fields = [s1 |-> <<1, 2>>, s2 |-> <<1, 2>>]
    /\ \E a \in MonkHeapArrays : app = [AppState EXCEPT !.mode = "monk", !.heapData = <<a>>]
    /\ viz = Visualizer
    /\ heapViz = HeapVisualizer
    /\ csViz = CountingSortVisualizer
    /\ stViz = StrassenVisualizer
    /\ solvers = <<>>
    /\ tb = TracebackManager
    /\ walkers = <<>>
    /\ op = Op("init", FALSE, FALSE)

SpecHeapMonk == InitHeapMonk /\ [][NextHeapMonk]_vars

(***************************************************************************)
(* The counting sort monk mode in the application: the level is started by *)
(* the Start button in monk mode, the cells of the current phase are typed *)
(* into, the Check and Hint buttons are pressed  (src/unnamed/part_005)     *)
(***************************************************************************)
MonkCSArrays == CSInputs \ {<<>>}

\* what can be typed into a cell: nothing, or a number
MonkCSValues == {NULL} \cup 0..Max2(CSMaxLen, CSMaxVal)

\* the number of user operations of a behaviour in the counting sort monk mode
MaxCSMonkOps == 7

CM_out(w, r) == [w EXCEPT !.app.countingSortMonkMode = <<r.cm>>, !.app.statusText = r.status]

CSMStart ==
    /\ app.ops < MaxCSMonkOps
    /\ \E d \in MonkCSArrays :
           /\ app.countingSortData # <<>> => d = app.countingSortData[1]
           /\ HMStarted(App_runSimulation(User, d))

\* the inputs of the current phase have the listener of _attachInputListeners
CSMType ==
    /\ app.ops < MaxCSMonkOps
    /\ app.countingSortMonkMode # <<>>
    /\ \E index \in 0..(Len(app.countingSortMonkMode[1].marks) - 1), value \in MonkCSValues :
           HMDo("type",
                [User EXCEPT !.app.countingSortMonkMode[1] =
                                         CM_onInputChange(@, @.currentPhase, index, value)],
                index)

\* the Check button, or Enter in a cell
CSMCheck ==
    /\ app.ops < MaxCSMonkOps
    /\ app.countingSortMonkMode # <<>>
    /\ HMDo("check", CM_out(User, CM_checkCurrentPhase(app.countingSortMonkMode[1])), 0)

CSMHint ==
    /\ app.ops < MaxCSMonkOps
    /\ app.countingSortMonkMode # <<>>
    /\ HMDo("hint", [User EXCEPT !.app.statusText = CM_showHint(app.countingSortMonkMode[1])], 0)

NextCSMonk == CSMStart \/ CSMType \/ CSMCheck \/ CSMHint

InitCSMonk ==
    /\ algo = "countingsort"
    /\ fields \in Random("lcs")
    /\ \E a \in MonkCSArrays : app = [AppState EXCEPT !.mode = "monk", !.countingSortData = <<a>>]
    /\ viz = Visualizer
    /\ heapViz = HeapVisualizer
    /\ csViz = CountingSortVisualizer
    /\ stViz = StrassenVisualizer
    /\ solvers = <<>>
    /\ tb = TracebackManager
    /\ walkers = <<>>
    /\ op = Op("init", FALSE, FALSE)

SpecCSMonk == InitCSMonk /\ [][NextCSMonk]_vars

(***************************************************************************)
(* The traceback of the monk mode in the application: after Start in monk  *)
(* mode the Traceback button is enabled by a timer, and the walk waits for *)
(* clicks on the cells of the grid  (src/unnamed/part_006)                  *)
(***************************************************************************)
MTStart ==
    /\ app.ops < MaxMonkOps
    /\ \E d \in Random(algo) : AppRan(App_runSimulation(User, d))

MTTraceback ==
    /\ app.ops < MaxMonkOps
    /\ ~app.tracebackBtnDisabled
    /\ AppDo("traceback", App_startTraceback(User))

\* the close button of the traceback card
MTClose ==
    /\ app.ops < MaxMonkOps
    /\ ~tb.cardHidden
    /\ AppDo("close", App_stopTraceback(User))

\* a click on a cell of the grid while the container has the listener
MTClick ==
    /\ app.ops < MaxMonkOps
    /\ tb.cellClickHandler # <<>>
    /\ \E rc \in DOMAIN viz.cells :
           CellDo("cellClick", TBOut(User, TB_cellClick(TBIn(User), rc[1], rc[2])), rc)

MTUnflash ==
    \E k \in 1..Len(tb.wrongTimers) :
        AppDo("unflash", TBOut(Fresh(World), TB_wrongTimeout(TBIn(Fresh(World)), k)))

NextMonkTrace == MTStart \/ EnableTraceback \/ MTTraceback \/ MTClose \/ MTClick \/ MTUnflash

InitMonkTrace ==
    /\ algo \in {"knapsack", "lcs"}
    /\ fields \in Random("lcs")
    /\ \E d \in Random("knapsack") : app = [AppState EXCEPT !.mode = "monk", !.data = <<d>>]
    /\ viz = Visualizer
    /\ heapViz = HeapVisualizer
    /\ csViz = CountingSortVisualizer
    /\ stViz = StrassenVisualizer
    /\ solvers = <<>>
    /\ tb = TracebackManager
    /\ walkers = <<>>
    /\ op = Op("init", FALSE, FALSE)

SpecMonkTrace == InitMonkTrace /\ [][NextMonkTrace]_vars

(***************************************************************************)
(* The table monk mode in the application: the level is started by Start   *)
(* in monk mode, values are typed into the cells, and checkAll is called   *)
(* (src/unnamed/part_002)                                                   *)
(***************************************************************************)
MonkTableInputs(a) ==
    IF a = "knapsack" THEN {[capacity |-> 1, weights |-> <<1>>, values |-> <<2>>]}
    ELSE {[s1 |-> <<1>>, s2 |-> <<1>>], [s1 |-> <<1>>, s2 |-> <<2>>]}

\* what can be typed into a cell: nothing, or a number
MonkTableValues == {EMPTY} \cup 0..2

MKStart ==
    /\ app.ops < MaxMonkOps
    /\ \E d \in MonkTableInputs(algo) : AppRan(App_runSimulation(User, d))

\* a value is typed into the input of a cell and the input loses the focus
MKType ==
    /\ app.ops < MaxMonkOps
    /\ app.monkMode.currentAlgo # "none"
    /\ \E rc \in MM_inputs(viz), value \in MonkTableValues :
           DoAs(GridOut(User, MM_change(app.monkMode, GridIn(User), rc, value)),
                [Op("type", FALSE, FALSE) EXCEPT !.hist = <<rc[1], rc[2], value>>])

MKChecked(w, r) ==
    DoAs(GridOut(w, r.v),
         [Op("checkAll", FALSE, FALSE) EXCEPT !.hist = <<r.score, r.total>>, !.away = r.allCorrect])

\* checkAll; op.hist holds score and total, op.away allCorrect
MKCheckAll ==
    /\ app.ops < MaxMonkOps
    /\ app.monkMode.currentAlgo # "none"
    /\ MKChecked(User, MM_checkAll(app.monkMode, GridIn(User)))

NextMonkTable == MKStart \/ EnableTraceback \/ MKType \/ MKCheckAll

InitMonkTable ==
    /\ algo \in {"knapsack", "lcs"}
    /\ fields \in MonkTableInputs("lcs")
    /\ \E d \in MonkTableInputs("knapsack") : app = [AppState EXCEPT !.mode = "monk", !.data = <<d>>]
    /\ viz = Visualizer
    /\ heapViz = HeapVisualizer
    /\ csViz = CountingSortVisualizer
    /\ stViz = StrassenVisualizer
    /\ solvers = <<>>
    /\ tb = TracebackManager
    /\ walkers = <<>>
    /\ op = Op("init", FALSE, FALSE)

SpecMonkTable == InitMonkTable /\ [][NextMonkTable]_vars

(***************************************************************************)
(* The solvers on their own: instances are constructed from inputs and      *)
(* solve() (the heap operation for a HeapSolver) is called on them, more    *)
(* than once on the same instance.  An instance is kept with the kind of    *)
(* solver, the arguments of its constructor, the solver object s, the       *)
(* number of calls made and, in out, what the last call did.                *)
(***************************************************************************)
MaxSolvers == 2
MaxCalls == 2

\* parameters the solvers are not written for
MalformedKnapsack ==
    {[capacity |-> 0 - 1, weights |-> <<1>>, values |-> <<2>>],
     [capacity |-> 0 - 2, weights |-> <<1>>, values |-> <<2>>],
     [capacity |-> 1, weights |-> <<1>>, values |-> <<2, 3>>]}

OddMatrix == <<<<1, 0, 0>>, <<0, 1, 0>>, <<0, 0, 1>>>>

\* the inputs of the solvers: lists of at most SolveMaxItems items of weight and
\* value up to SolveMaxVal, strings of at most SolveMaxStr letters, arrays of at
\* most SolveMaxLen numbers up to SolveMaxVal
SolveMaxItems == 2
SolveMaxCap == 2
SolveMaxStr == 2
SolveMaxLen == 4
SolveMaxVal == 2

SolveKnapsackInputs ==
    {d \in [capacity : 0..SolveMaxCap, weights : SeqsUpTo(0..SolveMaxVal, SolveMaxItems),
            values : SeqsUpTo(0..SolveMaxVal, SolveMaxItems)] : Len(d.weights) = Len(d.values)}

SolveLCSInputs ==
    {[s1 |-> a, s2 |-> b] : a \in SeqsUpTo(1..2, SolveMaxStr), b \in SeqsUpTo(1..2, SolveMaxStr)}

SolveHeapArrays == SeqsUpTo(0..SolveMaxVal, SolveMaxLen)

SolveHeapInputs ==
    {[array |-> a, operation |-> o, insertValue |-> UNDEF] :
        a \in SolveHeapArrays, o \in {"build", "extract"}}
    \cup {[array |-> a, operation |-> "insert", insertValue |-> x] :
              a \in SolveHeapArrays, x \in 0..SolveMaxVal}

\* square matrices: every 2 x 2 pair of a matrix over {0, 2} and one over
\* {-1, 1}, and two fixed matrices of dimension 4 and of dimension 8
SolveSmallA == [1..2 -> [1..2 -> {0, 2}]]
SolveSmallB == [1..2 -> [1..2 -> {0 - 1, 1}]]
Ramp(n) == [i \in 1..n |-> [j \in 1..n |-> ((i * j + i) % 3) - 1]]
Wave(n) == [i \in 1..n |-> [j \in 1..n |-> (i + 2 * j) % 4]]

SolveStrassenInputs ==
    {[A |-> a, B |-> b] : a \in SolveSmallA, b \in SolveSmallB}
    \cup {[A |-> Ramp(n), B |-> Wave(n)] : n \in {4, 8}}
    \cup {[A |-> Wave(n), B |-> Ramp(n)] : n \in {4, 8}}

SolverInputs(kind) ==
    CASE kind = "knapsack" -> KnapsackInputs \cup SolveKnapsackInputs \cup MalformedKnapsack
      [] kind = "lcs" -> LCSInputs \cup SolveLCSInputs
      [] kind = "heap" -> HeapInputs \cup SolveHeapInputs
      [] kind = "countingsort" -> {[array |-> a] : a \in SolveHeapArrays \ {<<>>}}
      [] OTHER -> StrassenInputs \cup SolveStrassenInputs \cup {[A |-> OddMatrix, B |-> OddMatrix]}

\* new XSolver(...)
Construct(kind, d) ==
    CASE kind = "knapsack" -> KnapsackSolver(d.capacity, d.weights, d.values)
      [] kind = "lcs" -> LCSSolver(d.s1, d.s2)
      [] kind = "heap" -> HeapSolver(d.array, d.operation)
      [] kind = "countingsort" -> CountingSortSolver(d.array)
      [] OTHER -> StrassenSolver(d.A, d.B)

Thrown(inst, t) ==
    [inst EXCEPT !.s = t, !.calls = @ + 1, !.out = <<[threw |-> TRUE, result |-> UNDEF]>>]

Returned(inst, t, r) ==
    [inst EXCEPT !.s = t, !.calls = @ + 1, !.out = <<[threw |-> FALSE, result |-> r]>>]

\* the HeapSolver that returned r: its array, steps and counters are r's
HeapReturned(inst, r) ==
    Returned(inst,
             [inst.s EXCEPT !.array = r.heap, !.steps = r.steps,
                            !.heapifyCalls = r.stats.heapifyCalls,
                            !.swapCount = r.stats.swapCount,
                            !.recursiveCalls = r.stats.recursiveCalls],
             r)

\* the StrassenSolver that returned r
StrassenReturned(inst, r) ==
    Returned(inst, [inst.s EXCEPT !.result = r.result, !.steps = r.steps, !.stats = r.stats], r)

\* solve(), buildMaxHeap(), extractMax() or insertElement(value) on an instance
Call(inst) ==
    CASE inst.kind = "knapsack" ->
             IF KS_throws(inst.s) THEN Thrown(inst, inst.s)
             ELSE Returned(inst, KS_buildTable(KS_resetState(inst.s), 0), KS_solve(inst.s))
      [] inst.kind = "lcs" ->
             Returned(inst, LCS_buildTable(LCS_resetState(inst.s), 0), LCS_solve(inst.s))
      [] inst.kind = "heap" ->
             HeapReturned(inst,
                          CASE inst.input.operation = "build" -> H_buildMaxHeap(inst.s)
                            [] inst.input.operation = "extract" -> H_extractMax(inst.s)
                            [] OTHER -> H_insertElement(inst.s, inst.input.insertValue))
      [] inst.kind = "countingsort" ->
             Returned(inst, CS_sorted(inst.s), CS_solve(inst.s))
      [] OTHER ->
             IF inst.s.n > 2 /\ ST_splitMatrixThrows(inst.s.matrixA)
             THEN Thrown(inst, ST_thrown(inst.s))
             ELSE StrassenReturned(inst, ST_solve(inst.s))

SolverFrame(name, index) ==
    /\ op' = [Op(name, FALSE, FALSE) EXCEPT !.from = index]
    /\ UNCHANGED <<algo, fields, viz, heapViz, csViz, stViz, app, tb, walkers>>

\* a solver is constructed; the later ones from the arguments of the first
SolverNew ==
    /\ Len(solvers) < MaxSolvers
    /\ \E kind \in Algos :
           \E d \in SolverInputs(kind) :
               /\ solvers # <<>> => kind = solvers[1].kind /\ d = solvers[1].input
               /\ solvers' = Append(solvers, [kind |-> kind, input |-> d, s |-> Construct(kind, d),
                                              calls |-> 0, out |-> <<>>])
    /\ SolverFrame("new", Len(solvers) + 1)

SolverCall ==
    \E k \in DOMAIN solvers :
        /\ solvers[k].calls < MaxCalls
        /\ solvers' = [solvers EXCEPT ![k] = Call(@)]
        /\ SolverFrame("call", k)

NextSolve == SolverNew \/ SolverCall

InitSolve ==
    /\ algo = "knapsack"
    /\ fields = [s1 |-> <<1, 2>>, s2 |-> <<1, 2>>]
    /\ app = AppState
    /\ viz = Visualizer
    /\ heapViz = HeapVisualizer
    /\ csViz = CountingSortVisualizer
    /\ stViz = StrassenVisualizer
    /\ solvers = <<>>
    /\ tb = TracebackManager
    /\ walkers = <<>>
    /\ op = Op("init", FALSE, FALSE)

SpecSolve == InitSolve /\ [][NextSolve]_vars

(***************************************************************************)
(* One traceback from its start to its end: the simulation of a table is    *)
(* run, the traceback is started, and the delays of the walk resolve until  *)
(* the walk has completed.                                                  *)
(***************************************************************************)
WalkMaxItems == 3
WalkMaxCap == 3
WalkMaxStr == 3

WalkInputs(a) ==
    IF a = "knapsack"
    THEN {d \in [capacity : 0..WalkMaxCap, weights : SeqsUpTo(0..2, WalkMaxItems),
                 values : SeqsUpTo(0..2, WalkMaxItems)] : Len(d.weights) = Len(d.values)}
    ELSE [s1 : SeqsUpTo(1..2, WalkMaxStr), s2 : SeqsUpTo(1..2, WalkMaxStr)]

WalkRun == app.lastSolvedDp = <<>> /\ TraceRunOf(AC_solveGrid(algo, fields))

\* the card of the traceback is hidden until a traceback is started
WalkStart == tb.cardHidden /\ TraceStart

WalkHop == TraceHop

NextWalk == WalkRun \/ WalkStart \/ WalkHop

InitWalk ==
    /\ algo \in {"knapsack", "lcs"}
    /\ fields \in WalkInputs(algo)
    /\ InitPlayers

SpecWalk == InitWalk /\ [][NextWalk]_vars

(***************************************************************************)
(* The heap monk level next to the HeapSolver that startLevel constructs   *)
(* and calls (src/components/heap/monkMode.js 28-55): the answer key is    *)
(* read from the steps of that solver.                                     *)
(***************************************************************************)
\* the number of user operations of a behaviour of the level
MaxLevelOps == 4

\* this.solver = new HeapSolver(array, operation), after the call startLevel
\* makes on it
LevelSolver(data) ==
    Call([kind |-> "heap", input |-> data, s |-> Construct("heap", data),
          calls |-> 0, out |-> <<>>])

\* the frame of the Start button: the world w it leaves and the solver of
\* the level
LevelDo(w, data) ==
    /\ algo' = w.algo
    /\ fields' = w.fields
    /\ app' = w.app
    /\ viz' = w.viz
    /\ heapViz' = w.heapViz
    /\ csViz' = w.csViz
    /\ tb' = w.tb
    /\ walkers' = w.walkers
    /\ op' = Op(RunName(w), FALSE, FALSE)
    /\ solvers' = <<LevelSolver(data)>>
    /\ UNCHANGED stViz

LevelOperation == app.ops < MaxLevelOps /\ HMOperation

LevelStart ==
    /\ app.ops < MaxLevelOps
    /\ \E d \in MonkHeapArrays :
           /\ app.heapData # <<>> => d = app.heapData[1]
           /\ LevelDo(App_runSimulation(User, d), App_operationData(User, d))

LevelClick == app.ops < MaxLevelOps /\ HMClick

NextLevel == LevelOperation \/ LevelStart \/ LevelClick

SpecLevel == InitHeapMonk /\ [][NextLevel]_vars


(***************************************************************************)
(* Properties of the step players                                          *)
(***************************************************************************)
Last(q) == q[Len(q)]

Pending(v) == v.timeouts # {}

\* the step a handler has just executed, when it executed one
Executed(v) == v.steps[Last(v.ran) + 1]

HeapRanStep == algo = "heap" /\ op.name \in {"play", "next", "tick"} /\ heapViz.ran # <<>>
HeapWentBack == algo = "heap" /\ op.name = "prev" /\ op.moved
CSRanStep == algo = "countingsort" /\ op.name \in {"play", "next", "tick"} /\ csViz.ran # <<>>
CSWentBack == algo = "countingsort" /\ op.name = "prev" /\ op.moved

CSArrays(x) == <<x.inputArray, x.countArray, x.outputArray>>

\* C1: in the heap and counting-sort players the array state after next(),
\* a play tick or prev() equals the array snapshot of the step on display;
\* after prev() that is the step at the new cursor index.
C1_ArraysEqualSnapshot ==
    /\ HeapRanStep => heapViz.array = Executed(heapViz).array
    /\ HeapWentBack => heapViz.array = heapViz.steps[heapViz.currentStepIndex + 1].array
    /\ CSRanStep => CSArrays(csViz) = CSArrays(Executed(csViz))
    /\ CSWentBack => CSArrays(csViz) = CSArrays(csViz.steps[csViz.currentStepIndex + 1])

\* C6: in every reachable state of the four players the cursor lies between
\* 0 and the number of loaded steps.
C6_CursorInRange ==
    /\ viz.currentStepIndex \in 0..Len(viz.steps)
    /\ heapViz.currentStepIndex \in 0..Len(heapViz.steps)
    /\ csViz.currentStepIndex \in 0..Len(csViz.steps)
    /\ stViz.currentStep \in 0..Len(stViz.steps)

\* next() called at the end of a loaded grid trace
C6_NextAtEnd ==
    /\ IsGrid /\ op.name = "next" /\ ~op.moved
    /\ viz.steps # <<>> /\ viz.currentStepIndex = Len(viz.steps)

LoadedClean(v, steps) ==
    /\ ~Pending(v) /\ ~v.isPlaying
    /\ v.steps = steps /\ v.currentStepIndex = 0
    /\ v.ran = <<>>

\* C7: loadSteps called in any reachable state of the grid, heap and
\* counting-sort players leaves no tick pending, isPlaying false, the new
\* steps loaded and the cursor at 0, so that no earlier tick is left to
\* execute a step of the new sequence; the state after a load is such.
C7_LoadResets ==
    /\ IsGrid => LoadedClean(V_loadSteps(BeginGrid(viz), GridRun.result.steps), GridRun.result.steps)
    /\ algo = "heap" =>
           \A d \in HeapInputs :
               d.array = fields =>
                   LoadedClean(HV_loadSteps(Begin(heapViz), HeapRuns[d].steps), HeapRuns[d].steps)
    /\ algo = "countingsort" =>
           LoadedClean(CV_loadSteps(Begin(csViz), CSRuns[fields].steps), CSRuns[fields].steps)
    /\ (IsGrid /\ op.name = "load") => LoadedClean(viz, GridRun.result.steps)
    /\ (algo = "heap" /\ op.name = "load") =>
           \E d \in HeapInputs : d.array = fields /\ LoadedClean(heapViz, HeapRuns[d].steps)
    /\ (algo = "countingsort" /\ op.name = "load") => LoadedClean(csViz, CSRuns[fields].steps)

\* a trace loaded into the counting-sort player while it was playing
C7_LoadWhilePlaying ==
    /\ algo = "countingsort" /\ op.name = "load" /\ op.wasPlaying
    /\ csViz.steps # <<>>

OneTick(v) == Cardinality(v.timeouts) <= 1 /\ (Pending(v) => v.isPlaying)

\* v is the player before the handler, w the player after it
TickDiscipline(v, w) ==
    /\ OneTick(w)
    /\ (op'.name = "play" /\ v.isPlaying) =>
           /\ w.ran = <<>> /\ w.timeouts = v.timeouts /\ w.isPlaying
           /\ w.currentStepIndex = v.currentStepIndex
    /\ op'.name = "pause" => (~Pending(w) /\ ~w.isPlaying /\ w.ran = <<>>)
    /\ op'.name = "tick" => v.isPlaying
    /\ w.ran # <<>> => op'.name \in {"play", "next", "tick"}

\* C8: in the grid, heap and counting-sort players at most one tick is
\* pending and only while isPlaying; play() while playing executes and
\* schedules nothing; pause() leaves no tick pending and is idempotent; a
\* step executes only in play(), next() or a tick of a playing player.
C8_SingleTick ==
    [][/\ IsGrid => (TickDiscipline(viz, viz') /\ V_pause(V_pause(viz')) = V_pause(viz'))
       /\ algo = "heap" =>
              (TickDiscipline(heapViz, heapViz') /\ HV_pause(HV_pause(heapViz')) = HV_pause(heapViz'))
       /\ algo = "countingsort" =>
              (TickDiscipline(csViz, csViz') /\ CV_pause(CV_pause(csViz')) = CV_pause(csViz'))]_vars

\* play() called on the heap player while it is playing
C8_PlayWhilePlaying ==
    /\ algo = "heap" /\ op.name = "play" /\ op.wasPlaying
    /\ Pending(heapViz)

\* v is the player before next(), w the player after it
NextContract(v, w) ==
    op'.name = "next" =>
        /\ ~w.isPlaying /\ ~Pending(w)
        /\ w.steps = v.steps
        /\ IF v.currentStepIndex < Len(v.steps)
           THEN w.ran = <<v.currentStepIndex>> /\ w.currentStepIndex = v.currentStepIndex + 1
           ELSE w.ran = <<>> /\ w.currentStepIndex = v.currentStepIndex

\* C10: next() on the grid, heap and counting-sort players stops auto-play,
\* then executes exactly the step at the cursor and advances the cursor by
\* one when cursor < steps.length, and executes nothing and keeps the cursor
\* when cursor = steps.length.
C10_NextExecutesOne ==
    [][/\ IsGrid => NextContract(viz, viz')
       /\ algo = "heap" => NextContract(heapViz, heapViz')
       /\ algo = "countingsort" => NextContract(csViz, csViz')]_vars

\* next() called on the counting-sort player while it was playing
C10_NextWhilePlaying ==
    /\ algo = "countingsort" /\ op.name = "next" /\ op.wasPlaying /\ op.moved
    /\ csViz.ran # <<>>

\* the grid as loadSteps leaves it, then steps 0..n-1 executed in order
RECURSIVE V_forward(_, _, _)
V_forward(v, k, n) ==
    IF k >= n THEN v ELSE V_forward(V_executeStep(v, k), k + 1, n)

Replayed(v, n) == V_forward(V_loadSteps(BeginGrid(v), v.steps), 0, n)

\* what the user sees of the grid: cell texts with the '?' placeholder,
\* dependency highlights and the target highlight
Visible(v) == [cells |-> v.cells, hl |-> v.hl, target |-> v.target]

GridWentBack == IsGrid /\ op.name = "prev" /\ op.moved

\* C2: after prev() has moved the grid cursor from c to c-1 the visible
\* grid (values, '?', dependency highlights, target highlight) equals the
\* one obtained by loading the same steps and executing steps 0..c-2.
C2_PrevEqualsForward ==
    GridWentBack => Visible(viz) = Visible(Replayed(viz, viz.currentStepIndex))

\* the player addressed by the controls
Player == CASE IsGrid -> viz [] algo = "heap" -> heapViz [] OTHER -> csViz

\* what a player shows and holds, apart from its timer bookkeeping and its
\* speed setting
Shown(v) == [v EXCEPT !.animationId = NOID, !.timeouts = {}, !.ran = <<>>, !.speed = 0,
                      !.isPlaying = FALSE]

\* the step indices from..to - 1 in order
Indices(from, to) == [k \in 1..(IF to > from THEN to - from ELSE 0) |-> from + k - 1]

PlayedOut ==
    /\ op.away
    /\ Player.currentStepIndex = Len(Player.steps)
    /\ ~Player.isPlaying /\ ~Pending(Player)
    /\ op.hist = Indices(op.from, Len(Player.steps))
    /\ op.twin[1].currentStepIndex = Len(Player.steps)
    /\ Shown(Player) = Shown(op.twin[1])

\* C9: once play() is called at cursor c and the player is left alone, the
\* ticks execute steps c..length-1 once each in order, and the run ends at
\* cursor = steps.length with isPlaying false and no tick pending, showing
\* for every speed what next() repeated to the end shows.
C9_PlayRunsToEnd == op.away ~> PlayedOut

\* an unattended run of the heap player that started past the first step
\* and executed at least two steps
C9_RunFinished ==
    /\ PlayedOut /\ algo = "heap"
    /\ op.from > 0 /\ Len(op.hist) >= 2

(***************************************************************************)
(* Properties of the traceback                                             *)
(***************************************************************************)
NoDuplicates(q) == \A x, y \in 1..Len(q) : q[x] = q[y] => x = y

TracebackMarks(v) == <<v.tbCurrent, v.tbVisited, v.tbPath>>

KnapsackReported == ~tb.resultHidden /\ tb.algoType = "knapsack"

\* C3: a walk abandoned by stopTraceback() or by a restart does nothing
\* when its delay elapses: selectedItems, the LCS result, the log, the
\* highlights and the completion report stay as they are, and a knapsack
\* traceback reports each included item once.
C3_AbandonedWalkIsInert ==
    [][/\ op'.name = "staleHop" =>
              /\ tb' = tb
              /\ TracebackMarks(viz') = TracebackMarks(viz)
              /\ viz'.explanation = viz.explanation
       /\ KnapsackReported' => NoDuplicates(tb'.selectedItems)]_vars

(***************************************************************************)
(* Properties of the application                                           *)
(***************************************************************************)
TornDown(v) == v.timeouts = {} /\ v.currentStepIndex = 0

CanStep(v) == v.currentStepIndex < Len(v.steps)

\* C4: a tab change or a Start tears down every player that was playing (no
\* tick of it is pending afterwards and its cursor is 0), and a tick
\* executes steps only of the player whose steps the last Start loaded
C4_SwitchTearsDown ==
    [][/\ op'.name \in {"tab", "run", "startLevel"} =>
              /\ viz.isPlaying => TornDown(viz')
              /\ heapViz.isPlaying => TornDown(heapViz')
              /\ csViz.isPlaying => TornDown(csViz')
       /\ op'.name = "gridTick" /\ viz'.ran # <<>> => app'.live = "grid"
       /\ op'.name = "heapTick" /\ heapViz'.ran # <<>> => app'.live = "heap"
       /\ op'.name = "csTick" /\ csViz'.ran # <<>> => app'.live = "countingsort"]_vars

\* C5: when a monk level has just been started, the step player of the
\* tab has no tick pending and no loaded step that play() or next() would
\* execute
C5_MonkStartsQuiet ==
    op.name = "startLevel" =>
        CASE algo = "heap" -> heapViz.timeouts = {} /\ ~CanStep(heapViz)
          [] algo = "countingsort" -> csViz.timeouts = {} /\ ~CanStep(csViz)
          [] OTHER -> viz.timeouts = {} /\ ~CanStep(viz)

(***************************************************************************)
(* Idle calls                                                              *)
(***************************************************************************)
ShownGrid(v) == [Shown(v) EXCEPT !.error = FALSE]

ShownStrassen(v) == [v EXCEPT !.animationId = NOID, !.timeouts = {}, !.speed = 0, !.isPlaying = FALSE]

\* the call named has nothing to do on a player with `len` steps at `cursor`
NothingToDo(name, len, cursor) ==
    /\ name \in {"play", "next", "prev"}
    /\ len = 0 \/ (name = "prev" /\ cursor = 0)

\* C11: play(), next() and prev() with no steps loaded, and prev() at
\* cursor 0, do not raise and leave the cursor, the steps and everything
\* shown as they were; play() with no steps ends with isPlaying false
C11_IdleNoOp ==
    [][/\ IsGrid /\ NothingToDo(op'.name, Len(viz.steps), viz.currentStepIndex) =>
              /\ ShownGrid(viz') = ShownGrid(viz)
              /\ ~viz'.error
              /\ op'.name = "play" => ~viz'.isPlaying
       /\ algo = "heap" /\ NothingToDo(op'.name, Len(heapViz.steps), heapViz.currentStepIndex) =>
              /\ Shown(heapViz') = Shown(heapViz)
              /\ op'.name = "play" => ~heapViz'.isPlaying
       /\ algo = "countingsort" /\ NothingToDo(op'.name, Len(csViz.steps), csViz.currentStepIndex) =>
              /\ Shown(csViz') = Shown(csViz)
              /\ op'.name = "play" => ~csViz'.isPlaying
       /\ algo = "strassen" /\ NothingToDo(op'.name, Len(stViz.steps), stViz.currentStep) =>
              /\ ShownStrassen(stViz') = ShownStrassen(stViz)
              /\ op'.name = "play" => ~stViz'.isPlaying]_vars

\* prev() was called on the heap player at cursor 0 with a trace loaded
\* that had been stepped into before
C11_PrevAtStart ==
    /\ algo = "heap"
    /\ op.name = "prev" /\ ~op.moved
    /\ heapViz.currentStepIndex = 0 /\ Len(heapViz.steps) > 0
    /\ heapViz.hl # {}

(***************************************************************************)
(* The values committed to the grid                                        *)
(***************************************************************************)
\* the 'update' step of cell rc lies before the cursor
Committed(v, rc) ==
    \E k \in 1..v.currentStepIndex :
        v.steps[k].type = "update" /\ v.steps[k].row = rc[1] /\ v.steps[k].col = rc[2]

\* C12: in the grid player a cell shows a number exactly when its 'update'
\* step lies before the cursor, and that number is dp[row][col] of the
\* solver's final table
C12_CommittedCells ==
    IsGrid /\ viz.steps # <<>> =>
        \A rc \in DOMAIN viz.cells :
            /\ viz.cells[rc] \notin {EMPTY, QMARK} <=> Committed(viz, rc)
            /\ Committed(viz, rc) => viz.cells[rc] = GridRun.result.dp[rc[1]][rc[2]]

\* playing has reached the end of a trace whose table has a positive entry:
\* every cell shows the final table
C12_FinalTableShown ==
    /\ IsGrid /\ viz.steps # <<>>
    /\ op.name = "tick"
    /\ viz.currentStepIndex = Len(viz.steps)
    /\ \A rc \in DOMAIN viz.cells : viz.cells[rc] = GridRun.result.dp[rc[1]][rc[2]]
    /\ \E rc \in DOMAIN viz.cells : viz.cells[rc] > 0

\* the heap monk mode of the application, once a level was started
HM == app.heapMonkMode[1]

\* the pair of a swap attempt: the node selected before and the node clicked
Attempt == app.heapMonkMode # <<>> /\ HM.isActive /\ HM.selectedNode \notin {NULL, op'.from}

\* the attempt is the next expected swap, in either click order
Matches(from, to) ==
    /\ HM.currentSwapIndex < Len(HM.expectedSwaps)
    /\ {from, to} = {HM.expectedSwaps[HM.currentSwapIndex + 1].from,
                     HM.expectedSwaps[HM.currentSwapIndex + 1].to}

\* C13: in the heap monk mode a swap attempt that is not the next expected
\* swap leaves currentSwapIndex, userArray and the user counters unchanged and
\* the session active; an attempt that is the expected pair, clicked in either
\* order, swaps exactly those two entries and increases currentSwapIndex by
\* one; after either attempt no node is selected.
C13_SwapAttempt ==
    [][op'.name = "click" /\ Attempt =>
           /\ app'.heapMonkMode[1].selectedNode = NULL
           /\ \A i \in 0..(Len(heapViz'.dom) - 1) : <<i, "current">> \notin heapViz'.hl
           /\ IF Matches(HM.selectedNode, op'.from)
              THEN /\ app'.heapMonkMode[1].userArray = SwapAt(HM.userArray, HM.selectedNode, op'.from)
                   /\ app'.heapMonkMode[1].currentSwapIndex = HM.currentSwapIndex + 1
              ELSE /\ app'.heapMonkMode[1].userArray = HM.userArray
                   /\ app'.heapMonkMode[1].currentSwapIndex = HM.currentSwapIndex
                   /\ app'.heapMonkMode[1].userStats = HM.userStats
                   /\ app'.heapMonkMode[1].isActive]_vars

\* a second expected swap was made by clicking its 'to' node first, and the
\* level goes on or is complete
C13_SwappedBackwards ==
    /\ op.name = "click" /\ app.heapMonkMode # <<>>
    /\ HM.currentSwapIndex = 2 /\ HM.userStats.swapCount = 2
    /\ op.from = HM.expectedSwaps[2].from
    /\ HM.selectedNode = NULL


\* a heap monk level was started and startLevel returned
LevelStarted == app.heapMonkMode # <<>> /\ app.isSimulationComplete

\* C14: after HeapMonkMode.startLevel the session is complete (isActive is
\* false) exactly when currentSwapIndex equals the number of expected swaps,
\* levels with no expected swap included, and currentSwapIndex never exceeds
\* that number.
C14_CompleteAtEnd ==
    LevelStarted =>
        /\ HM.currentSwapIndex <= Len(HM.expectedSwaps)
        /\ ~HM.isActive <=> HM.currentSwapIndex = Len(HM.expectedSwaps)

\* the counting sort monk mode of the application, once a level was started
CM == app.countingSortMonkMode[1]

\* the three completion flags, in the order of the phases
Flags(cm) == <<cm.phase1Complete, cm.phase2Complete, cm.phase3Complete>>

\* the entries of the user in the current phase all equal the key
PhaseRight(cm) == CM_user(cm, cm.currentPhase) = CM_key(cm, cm.currentPhase)

\* a step of the user within a level
InLevel == app.countingSortMonkMode # <<>> /\ op'.name \in {"type", "check", "hint"}

\* C15: in the counting sort monk mode currentPhase changes only by a check,
\* only from k to k + 1 and only when every cell of phase k equals the key;
\* typing and failed checks leave currentPhase and the completion flags
\* unchanged; the phases complete in the order 1, 2, 3 and a completed phase
\* is never reopened within a level.
C15_PhasesInOrder ==
    [][InLevel =>
           /\ app'.countingSortMonkMode[1].currentPhase # CM.currentPhase =>
                  /\ op'.name = "check" /\ PhaseRight(CM)
                  /\ app'.countingSortMonkMode[1].currentPhase = CM.currentPhase + 1
           /\ op'.name # "check" \/ ~PhaseRight(CM) =>
                  /\ app'.countingSortMonkMode[1].currentPhase = CM.currentPhase
                  /\ Flags(app'.countingSortMonkMode[1]) = Flags(CM)
           /\ \A k \in 1..3 :
                  /\ Flags(CM)[k] => Flags(app'.countingSortMonkMode[1])[k]
                  /\ Flags(app'.countingSortMonkMode[1])[k] =>
                         /\ \A j \in 1..(k - 1) : Flags(app'.countingSortMonkMode[1])[j]
                         /\ Flags(CM)[k] \/ (CM.currentPhase = k /\ op'.name = "check")
                  /\ Flags(CM)[k] =>
                         /\ CM_user(app'.countingSortMonkMode[1], k) = CM_user(CM, k)
                         /\ app'.countingSortMonkMode[1].currentPhase >= (IF k < 3 THEN k + 1 ELSE 3)]_vars

\* the third phase of a level was completed by a check
C15_AllPhasesDone ==
    /\ app.countingSortMonkMode # <<>> /\ op.name = "check"
    /\ Flags(CM) = <<TRUE, TRUE, TRUE>> /\ ~CM.isActive
    /\ CM.userOutputArray = CM.outputArrayKey

\* the closure of the monk traceback that waits for a click
Clicker == tb.cellClickHandler[1]

\* the cell the walk must visit next from the position of the closure
ExpectedNext ==
    IF Clicker.algo = "knapsack"
    THEN <<TB_expectedKnapsackMove(TBIn(World), Clicker).expectedRow,
           TB_expectedKnapsackMove(TBIn(World), Clicker).expectedCol>>
    ELSE <<TB_expectedLcsMove(TBIn(World), Clicker.i, Clicker.j, Clicker.data.s1[Clicker.i],
                              Clicker.data.s2[Clicker.j]).expectedRow,
           TB_expectedLcsMove(TBIn(World), Clicker.i, Clicker.j, Clicker.data.s1[Clicker.i],
                              Clicker.data.s2[Clicker.j]).expectedCol>>

\* the position of the walk after the step: that of the closure, or the
\* border cell on which the walk was completed
Arrived(cell) ==
    IF cell[1] > 0 /\ cell[2] > 0
    THEN /\ tb'.cellClickHandler # <<>> /\ tb'.isTracing
         /\ <<tb'.cellClickHandler[1].i, tb'.cellClickHandler[1].j>> = cell
         /\ viz'.tbCurrent = {cell}
         /\ Len(tb'.log) = Len(tb.log) + 1
    ELSE /\ tb'.cellClickHandler = <<>> /\ ~tb'.isTracing
         /\ Len(tb'.log) = Len(tb.log) + 2

RightCells == {rc \in DOMAIN viz.cells : viz.cells[rc] = app.monkMode.answerKey[rc[1]][rc[2]]}

\* C17: in the table monk mode any cell takes any value at any time, and
\* checkAll returns total = the number of cells of the grid, score = the
\* number of cells whose entered value equals the answer key, allCorrect =
\* (score = total), and changes no entered value.
C17_CheckAllCounts ==
    [][/\ op'.name = "type" =>
              viz'.cells = [viz.cells EXCEPT ![<<op'.hist[1], op'.hist[2]>>] = op'.hist[3]]
       /\ op'.name = "checkAll" =>
              /\ op'.hist = <<Cardinality(RightCells), Cardinality(DOMAIN viz.cells)>>
              /\ op'.away <=> Cardinality(RightCells) = Cardinality(DOMAIN viz.cells)
              /\ viz'.cells = viz.cells]_vars

\* checkAll found every cell of a grid right that holds a value above 0
C17_AllCorrect ==
    /\ op.name = "checkAll" /\ op.away /\ op.hist[2] = 4
    /\ \E rc \in DOMAIN viz.cells : viz.cells[rc] > 0

(***************************************************************************)
(* Properties of the solvers                                               *)
(***************************************************************************)
\* the instances that were called
Called == {k \in DOMAIN solvers : solvers[k].out # <<>>}

Outcome(k) == solvers[k].out[1]

IsPowerOfTwo(n) == n \in {1, 2, 4, 8}

\* parameters the solvers are not written for
Malformed(inst) ==
    \/ /\ inst.kind = "knapsack"
       /\ inst.input.capacity < 0 \/ Len(inst.input.weights) # Len(inst.input.values)
    \/ inst.kind = "strassen" /\ ~IsPowerOfTwo(Len(inst.input.A))

\* C18: solve() on malformed parameters (a knapsack of negative capacity or
\* with weights and values of different lengths, a Strassen dimension that
\* is no power of two) fails with an error and leaves the steps of the solver
\* empty.
C18_MalformedFails ==
    \A k \in Called :
        Malformed(solvers[k]) => Outcome(k).threw /\ solvers[k].s.steps = <<>>

ExtractedFromEmpty(k) ==
    /\ solvers[k].kind = "heap"
    /\ solvers[k].input.operation = "extract"
    /\ solvers[k].input.array = <<>>

ExtractionPhase == {"extract-init", "extract-swap-root", "extract-complete"}

\* C19: extractMax() on an empty array does not throw, returns extractedValue
\* null and an empty heap, the last step of the trace it returns is the error
\* step, and the trace has no step of the extraction phase.
C19_ExtractFromEmpty ==
    \A k \in Called :
        ExtractedFromEmpty(k) =>
            /\ ~Outcome(k).threw
            /\ Outcome(k).result.extractedValue = NULL
            /\ Outcome(k).result.heap = <<>>
            /\ Outcome(k).result.steps # <<>>
            /\ Outcome(k).result.steps[Len(Outcome(k).result.steps)].type = "error"
            /\ \A n \in DOMAIN Outcome(k).result.steps :
                   Outcome(k).result.steps[n].type \notin ExtractionPhase

C19_ExtractedFromEmpty ==
    \E k \in Called : ExtractedFromEmpty(k) /\ solvers[k].calls = 2

SameInputs(j, k) ==
    solvers[j].kind = solvers[k].kind /\ solvers[j].input = solvers[k].input

\* C20: two solver instances constructed with equal inputs return equal
\* step sequences and equal final tables or arrays, whatever was done with
\* the instances before.
C20_EqualInputsEqualOutputs ==
    \A j \in Called, k \in Called : SameInputs(j, k) => Outcome(j) = Outcome(k)

C20_TwinsSolved ==
    /\ Called = {1, 2}
    /\ SameInputs(1, 2)
    /\ solvers[1].calls = 2 /\ solvers[2].calls = 1
    /\ solvers[1].kind = "heap" /\ solvers[1].input.operation = "insert"
    /\ ~Outcome(1).threw /\ Outcome(1).result.stats.swapCount > 0

\* the instances whose call returned, of one kind of solver
Solved(kind) ==
    {k \in Called : solvers[k].kind = kind /\ ~Outcome(k).threw /\ ~Malformed(solvers[k])}

Result(k) == Outcome(k).result

\* the cell and the type of every step
Shape(steps) == [x \in DOMAIN steps |-> <<steps[x].row, steps[x].col, steps[x].type>>]

\* one 'update' for a base cell, 'inspect' and 'update' for any other cell, the
\* cells of a table of the given last row and last column from cell k on,
\* row by row
RECURSIVE CellByCell(_, _, _)
CellByCell(lastRow, lastCol, k) ==
    LET i == k \div (lastCol + 1)
        w == k % (lastCol + 1)
    IN IF k >= (lastRow + 1) * (lastCol + 1) THEN <<>>
       ELSE (IF i = 0 \/ w = 0 THEN <<<<i, w, "update">>>>
                               ELSE <<<<i, w, "inspect">>, <<i, w, "update">>>>)
            \o CellByCell(lastRow, lastCol, k + 1)

LastRow(k) == IF solvers[k].kind = "knapsack" THEN solvers[k].s.itemCount ELSE solvers[k].s.rows
LastCol(k) == IF solvers[k].kind = "knapsack" THEN solvers[k].s.capacity ELSE solvers[k].s.cols

\* C21: solve() of the knapsack and of the LCS solver visits the cells row by
\* row and emits one 'update' step for every base cell and an 'inspect' and
\* then an 'update' step of the same cell for every other cell, so there are
\* (n+1)(W+1) + n*W steps.
C21_StepsCellByCell ==
    \A k \in Solved("knapsack") \cup Solved("lcs") :
        /\ Shape(Result(k).steps) = CellByCell(LastRow(k), LastCol(k), 0)
        /\ Len(Result(k).steps) = (LastRow(k) + 1) * (LastCol(k) + 1) + LastRow(k) * LastCol(k)

C21_BothBranchesTaken ==
    \E k \in Solved("knapsack") :
        /\ solvers[k].input = [capacity |-> 2, weights |-> <<2, 1>>, values |-> <<1, 2>>]
        /\ Len(Result(k).steps) = 13

\* heap[i] >= heap[c] for every child c of i within bounds
IsMaxHeap(heap) ==
    \A i \in 0..(Len(heap) - 1) :
        \A c \in {2 * i + 1, 2 * i + 2} : c < Len(heap) => At(heap, i) >= At(heap, c)

\* C22: the heap returned by buildMaxHeap(), extractMax() and
\* insertElement(v) has the max-heap property: heap[i] >= heap[c] for every
\* index i and each of its children c within bounds.
C22_ReturnsMaxHeap ==
    \A k \in Solved("heap") : IsMaxHeap(Result(k).heap)

C22_HeapRebuilt ==
    \E k \in Solved("heap") :
        /\ solvers[k].input.operation = "build"
        /\ Len(solvers[k].input.array) = 4
        /\ ~IsMaxHeap(solvers[k].input.array)
        /\ Result(k).stats.recursiveCalls > 0

\* how often x occurs in a
Count(a, x) == Cardinality({n \in DOMAIN a : a[n] = x})

Values(k) == Range(solvers[k].input.array) \cup Range(Result(k).heap) \cup {solvers[k].input.insertValue}

Maximum(a) == CHOOSE x \in Range(a) : \A y \in Range(a) : x >= y

\* the occurrences of x the operation of instance k is to add to the input
Added(k, x) ==
    CASE solvers[k].input.operation = "build" -> 0
      [] solvers[k].input.operation = "insert" ->
             IF x = solvers[k].input.insertValue THEN 1 ELSE 0
      [] OTHER -> IF solvers[k].input.array # <<>> /\ x = Maximum(solvers[k].input.array)
                  THEN 0 - 1 ELSE 0

\* C23: the heap operations neither lose nor invent elements: buildMaxHeap()
\* returns a permutation of the input, extractMax() on a non-empty input
\* returns its maximum and the input without one occurrence of it,
\* insertElement(v) returns the input plus v.
C23_ElementsKept ==
    \A k \in Solved("heap") :
        /\ \A x \in Values(k) :
               Count(Result(k).heap, x) = Count(solvers[k].input.array, x) + Added(k, x)
        /\ (solvers[k].input.operation = "extract" /\ solvers[k].input.array # <<>>)
               => Result(k).extractedValue = Maximum(solvers[k].input.array)

C23_OneOfTwoMaximaExtracted ==
    \E k \in Solved("heap") :
        /\ solvers[k].input.operation = "extract"
        /\ Len(solvers[k].input.array) = 4
        /\ Count(solvers[k].input.array, 2) = 2
        /\ Count(Result(k).heap, 2) = 1
        /\ Result(k).stats.swapCount > 0

NonDecreasing(a) == \A n \in 1..(Len(a) - 1) : a[n] <= a[n + 1]

\* C24: CountingSortSolver.solve() returns a sortedArray of the length of the
\* input that is non-decreasing, has no unfilled slot and holds every value as
\* often as the input does.
C24_Sorted ==
    \A k \in Solved("countingsort") :
        /\ Len(Result(k).sortedArray) = Len(solvers[k].input.array)
        /\ \A n \in DOMAIN Result(k).sortedArray : Result(k).sortedArray[n] \in Nat
        /\ NonDecreasing(Result(k).sortedArray)
        /\ \A x \in Range(solvers[k].input.array) \cup Range(Result(k).sortedArray) :
               Count(Result(k).sortedArray, x) = Count(solvers[k].input.array, x)

C24_UnsortedSorted ==
    \E k \in Solved("countingsort") :
        /\ solvers[k].input.array = <<2, 0, 1, 0>>
        /\ Result(k).sortedArray = <<0, 0, 1, 2>>

\* the placement steps of a trace, in the order of the trace
Placements(steps) == SelectSeq(steps, LAMBDA step : step.type = "output")

\* C25: the output phase of counting sort consumes the input from the right to
\* the left (the placement steps have input index n-1, ..., 0), every placement
\* writes output[count[value] - 1] and decrements count[value], and of two
\* input positions p1 < p2 of equal value p1 is placed before p2 in the output.
C25_StablePlacement ==
    \A k \in Solved("countingsort") :
        LET Placed(pl) ==
                /\ Len(pl) = Len(solvers[k].input.array)
                /\ \A n \in DOMAIN pl :
                       /\ pl[n].inputIndex = Len(pl) - n
                       /\ pl[n].value = At(solvers[k].input.array, pl[n].inputIndex)
                       /\ pl[n].outputPosition = pl[n].countBefore - 1
                       /\ pl[n].countAfter = pl[n].countBefore - 1
                       /\ At(pl[n].outputArray, pl[n].outputPosition) = pl[n].value
                       /\ At(pl[n].countArray, pl[n].value) = pl[n].countAfter
                /\ \A m \in DOMAIN pl, n \in DOMAIN pl :
                       (pl[m].inputIndex < pl[n].inputIndex /\ pl[m].value = pl[n].value)
                           => pl[m].outputPosition < pl[n].outputPosition
        IN Placed(Placements(Result(k).steps))

C25_EqualValuesPlaced ==
    \E k \in Solved("countingsort") :
        /\ solvers[k].input.array = <<1, 0, 1, 0>>
        /\ Len(Placements(Result(k).steps)) = 4
        /\ Placements(Result(k).steps)[2].outputPosition = 3
        /\ Placements(Result(k).steps)[4].outputPosition = 2

\* C26: for square integer matrices A and B of dimension 1, 2, 4 and 8 the
\* result of StrassenSolver.solve() is the naive product of A and B, entry for
\* entry.
C26_StrassenIsNaive ==
    \A k \in Solved("strassen") :
        Result(k).result = NaiveMultiply(solvers[k].input.A, solvers[k].input.B)

C26_EightByEight ==
    \E k \in Solved("strassen") :
        /\ Len(solvers[k].input.A) = 8
        /\ Result(k).stats.multiplications = 343
        /\ Result(k).stats.maxDepth = 2
        /\ \E i \in 1..8, j \in 1..8 : Result(k).result[i][j] < 0

\* the traceback of the table of the algorithm has completed
WalkDone(a) == algo = a /\ ~tb.cardHidden /\ ~tb.isTracing /\ ~tb.resultHidden

RECURSIVE SumOf(_, _)
\* the sum of the entries of list at the 1-based positions items
SumOf(list, items) ==
    IF items = <<>> THEN 0 ELSE list[Head(items)] + SumOf(list, Tail(items))

\* C27: the items a completed knapsack traceback of the solved table records
\* are pairwise distinct and reported in ascending order, their values sum to
\* dp[n][capacity] and their weights to at most the capacity.
C27_KnapsackItems ==
    WalkDone("knapsack") =>
        /\ \A a \in DOMAIN tb.selectedItems, b \in DOMAIN tb.selectedItems :
               a < b => tb.selectedItems[a] < tb.selectedItems[b]
        /\ Range(tb.selectedItems) \subseteq DOMAIN fields.weights
        /\ tb.selectedItemsEl = Desc("Item", tb.selectedItems)
        /\ SumOf(fields.values, tb.selectedItems) = tb.dpTable[Len(fields.weights)][fields.capacity]
        /\ SumOf(fields.weights, tb.selectedItems) <= fields.capacity

C27_TwoOfThreeItems ==
    /\ WalkDone("knapsack")
    /\ Len(fields.weights) = 3
    /\ tb.selectedItems = <<1, 3>>
    /\ SumOf(fields.weights, tb.selectedItems) = fields.capacity

\* q is p with some of its letters left out
RECURSIVE IsSubsequence(_, _)
IsSubsequence(q, p) ==
    IF q = <<>> THEN TRUE
    ELSE IF p = <<>> THEN FALSE
    ELSE IF Head(q) = Head(p) THEN IsSubsequence(Tail(q), Tail(p))
    ELSE IsSubsequence(q, Tail(p))

\* C28: the string a completed LCS traceback of the solved table assembles
\* has the length dp[m][n] and is a subsequence of s1 and of s2.
C28_LcsString ==
    WalkDone("lcs") =>
        /\ Len(tb.lcsResult) = tb.dpTable[Len(fields.s1)][Len(fields.s2)]
        /\ IsSubsequence(tb.lcsResult, fields.s1)
        /\ IsSubsequence(tb.lcsResult, fields.s2)

C28_TwoLetters ==
    /\ WalkDone("lcs")
    /\ fields = [s1 |-> <<2, 1, 2>>, s2 |-> <<1, 1, 2>>]
    /\ tb.lcsResult = <<1, 2>>

\* the 'update' steps of the mismatch cells of the LCS trace of instance k
MismatchUpdates(k) ==
    {n \in DOMAIN Result(k).steps :
        /\ Result(k).steps[n].type = "update"
        /\ Result(k).steps[n].row > 0 /\ Result(k).steps[n].col > 0
        /\ solvers[k].input.s1[Result(k).steps[n].row] # solvers[k].input.s2[Result(k).steps[n].col]}

\* the highlight that goes to the top cell unless the left value is larger
TopUnlessLeftLarger(dp, row, col) ==
    IF dp[row - 1][col] >= dp[row][col - 1] THEN <<RC(row - 1, col)>> ELSE <<RC(row, col - 1)>>

\* C29: the 'update' step of an LCS mismatch cell commits
\* max(dp[i-1][j], dp[i][j-1]) and highlights the top cell (i-1, j) whenever
\* dp[i-1][j] >= dp[i][j-1], the left cell (i, j-1) only when the left value is
\* strictly larger.
C29_TiesGoToTop ==
    \A k \in Solved("lcs") :
        \A n \in MismatchUpdates(k) :
            LET Holds(step) ==
                    /\ step.value = Max2(Result(k).dp[step.row - 1][step.col],
                                         Result(k).dp[step.row][step.col - 1])
                    /\ step.highlight = TopUnlessLeftLarger(Result(k).dp, step.row, step.col)
            IN Holds(Result(k).steps[n])

\* C30: in a heap trace heapifyCalls counts the sift-down invocations of depth
\* 0 only, recursiveCalls those of depth > 0 and swapCount the swaps, so after
\* buildMaxHeap() on n elements heapifyCalls = floor(n/2) and
\* recursiveCalls = swapCount.
C30_CountersByDepth ==
    \A k \in Solved("heap") :
        solvers[k].input.operation = "build" =>
            /\ Result(k).stats.heapifyCalls = Len(solvers[k].input.array) \div 2
            /\ Result(k).stats.recursiveCalls = Result(k).stats.swapCount

\* what the heap player and the counting-sort player have on display: the
\* arrays, the description and the counters
HeapDisplay(v) == [array |-> v.array, status |-> v.status, stats |-> v.statsShown]
CSDisplay(v) == [arrays |-> CSArrays(v), status |-> v.status, stats |-> v.statsShown]

\* a forward step has left the cursor k of player v strictly inside the trace
SteppedInside(v) == v.currentStepIndex > 0 /\ v.currentStepIndex < Len(v.steps)

\* C31: in the heap and counting-sort players prev() undoes next(): after
\* forward stepping to a cursor k with 0 < k < steps.length, next() followed by
\* prev() restores the cursor to k and the displayed step (arrays, description
\* and counters) to what was displayed before the next().
C31_PrevUndoesNext ==
    /\ HeapRanStep /\ SteppedInside(heapViz) =>
          /\ HV_prev(HV_next(heapViz)).currentStepIndex = heapViz.currentStepIndex
          /\ HeapDisplay(HV_prev(HV_next(heapViz))) = HeapDisplay(heapViz)
    /\ CSRanStep /\ SteppedInside(csViz) =>
          /\ CV_prev(CV_next(csViz)).currentStepIndex = csViz.currentStepIndex
          /\ CSDisplay(CV_prev(CV_next(csViz))) = CSDisplay(csViz)

\* the Start button has run HeapMonkMode.startLevel, which returned or threw
HeapLevelRun == algo = "heap" /\ op.name \in {"startLevel", "threw"}

\* the level is an extraction from an empty or single-element array: the user
\* array left after the root was removed is empty
ExtractsLast == HM.operation = "extract" /\ HM.userArray = <<>>

\* C33: HeapMonkMode.startLevel never raises: for operation 'extract' on an
\* empty or single-element array, whose solver trace has no sift-down phase,
\* it returns totalSwaps = 0 and leaves the session in a well-defined state
\* (started, at swap 0, no node selected, the user array on display).
C33_StartLevelNeverRaises ==
    HeapLevelRun =>
        /\ op.name = "startLevel"
        /\ ExtractsLast =>
              /\ HM.expectedSwaps = <<>>
              /\ HM.currentSwapIndex = 0
              /\ HM.selectedNode = NULL
              /\ HM.isActive
              /\ heapViz.array = HM.userArray

\* the swaps of the operation phase of a heap trace, in trace order: every
\* 'swap' of a build trace, the swaps after the pre-build of the others
RECURSIVE PhaseSwaps(_, _)
PhaseSwaps(steps, inPhase) ==
    IF steps = <<>> THEN <<>>
    ELSE (IF inPhase /\ Head(steps).type \in {"swap", "bubble-swap"}
          THEN <<SwapOf(Head(steps))>> ELSE <<>>)
         \o PhaseSwaps(Tail(steps),
                       inPhase \/ Head(steps).type \in {"pre-extract-complete", "pre-insert-complete"})

\* the array after the swaps are applied to it in order
RECURSIVE ApplySwaps(_, _)
ApplySwaps(array, swaps) ==
    IF swaps = <<>> THEN array
    ELSE ApplySwaps(SwapAt(array, Head(swaps).from, Head(swaps).to), Tail(swaps))

\* a level was started on an input array of two or more elements, and no
\* swap was made yet
LongLevel ==
    /\ HeapLevelRun /\ solvers # <<>>
    /\ Len(solvers[1].input.array) >= 2

\* C32: for every input array of length >= 2 and each operation, the heap monk
\* answer key holds exactly the swaps of the operation phase in trace order
\* (for extract and insert none of the pre-build swaps), and applying
\* expectedSwaps in order to the initial userArray yields the finalHeap the
\* solver returned.
C32_AnswerKeyIsOperationPhase ==
    LongLevel =>
        /\ op.name = "startLevel"
        /\ HM.expectedSwaps = PhaseSwaps(Result(1).steps, HM.operation = "build")
        /\ ApplySwaps(HM.userArray, HM.expectedSwaps) = Result(1).heap

\* an insertion into [1, 2, 1]: the pre-build swaps once, the key holds only
\* the swap of the inserted element with its parent
C32_InsertAfterPreBuild ==
    /\ LongLevel /\ HM.operation = "insert"
    /\ solvers[1].input.array = <<1, 2, 1>>
    /\ Len(SelectSwaps(Result(1).steps, {"swap"})) = 1
    /\ HM.expectedSwaps = <<[from |-> 3, to |-> 1, fromValue |-> 2, toValue |-> 1]>>
    /\ HM.userArray = <<2, 1, 1, 2>>

\* the count array in the snapshot of the step that ends a phase of a
\* counting-sort trace
CountArrayAfter(steps, type) ==
    steps[CHOOSE k \in DOMAIN steps : steps[k].type = type].countArray

\* two arrays of the same length with the same entries
SameArray(a, b) == Len(a) = Len(b) /\ \A i \in 1..Len(a) : a[i] = b[i]

\* the three answer keys of the monk mode cm against the result of the solver
KeysAgree(cm, result) ==
    /\ SameArray(cm.countArrayKey, CountArrayAfter(result.steps, "count-complete"))
    /\ SameArray(cm.cumulativeArrayKey, CountArrayAfter(result.steps, "cumulative-complete"))
    /\ Len(cm.countArrayKey) = MaxOf(cm.inputArray) + 1
    /\ Len(cm.cumulativeArrayKey) = MaxOf(cm.inputArray) + 1
    /\ SameArray(cm.outputArrayKey, result.sortedArray)

\* C34: for every non-empty input of non-negative integers the answer keys of
\* the counting-sort monk mode agree with the solver trace: countArrayKey is
\* the count array after the counting phase, cumulativeArrayKey the count
\* array after the prefix-sum phase, both of length max + 1, and
\* outputArrayKey the solver's sortedArray.
C34_KeysAgreeWithTrace ==
    app.countingSortMonkMode # <<>> /\ CM.inputArray # <<>> =>
        KeysAgree(CM, CS_solve(CountingSortSolver(CM.inputArray)))

\* the level of [2, 0]: the counts 1, 0, 1 and the running sums 1, 1, 2
C34_KeysOfTwoZero ==
    /\ app.countingSortMonkMode # <<>>
    /\ CM.inputArray = <<2, 0>>
    /\ CM.countArrayKey = <<1, 0, 1>>
    /\ CM.cumulativeArrayKey = <<1, 1, 2>>
    /\ CM.outputArrayKey = <<0, 2>>

\* the Hint button of the counting-sort monk mode was pressed
Hinted == algo = "countingsort" /\ op.name = "hint" /\ app.countingSortMonkMode # <<>>

\* the lowest-index cell of the current phase whose user value differs from
\* the key of the phase, or NULL
FirstWrongCell(cm) == CM_firstWrong(CM_user(cm, cm.currentPhase), CM_key(cm, cm.currentPhase))

\* the derivation of the cell i of the current phase: the occurrences of i,
\* the running sum up to i, or the right-to-left placement that fills
\* output[i]
Derivation(cm, i) ==
    CASE cm.currentPhase = 1 -> CM_countHint(cm, i)
      [] cm.currentPhase = 2 -> CM_cumulativeHint(cm, i)
      [] OTHER -> Desc("Hint: Traverse input array from RIGHT to LEFT.",
                       <<At(cm.outputArrayKey, i)>>)

\* C35: in each of the three counting-sort monk phases the hint refers to the
\* lowest-index cell of the current phase whose user value differs from the
\* key of that phase and states the correct derivation of that cell; when no
\* cell of the phase differs from the key, the hint reports that all values
\* look correct.
C35_HintFirstWrongCell ==
    Hinted =>
        app.statusText = (IF FirstWrongCell(CM) = NULL THEN CM_noHint
                          ELSE Derivation(CM, FirstWrongCell(CM)))

\* C36: StrassenVisualizer obeys the player contract of the other players:
\* after init(), stepForward() or stepBackward() the player is not playing
\* and no tick is pending, so that a trace is never advanced both by the
\* timer and by a manual step and a timer started for an old trace never
\* advances a newly initialised one.
C36_StrassenStepsPause ==
    algo = "strassen" /\ op.name \in {"load", "next", "prev"} =>
        ~stViz.isPlaying /\ ~Pending(stViz)

\* the animated walk from its start r to the end of its function: every
\* delay resolves
RECURSIVE TB_walkToEnd(_)
TB_walkToEnd(r) == IF r.asleep THEN TB_walkToEnd(TB_resume(r.m, r.wk)) ELSE r.m

\* the animated traceback on the table and the inputs of the manager m
AnimatedWalk(m) ==
    TB_walkToEnd(TB_startTraceback(TB_init(m, m.tb.algoType, m.tb.dpTable, m.tb.algoData, FALSE)))

NoHint(entry) == entry.type # "hint"

\* the cells visited and the decisions written, in order, and the report
WalkReport(m) ==
    [log |-> SelectSeq(m.tb.log, NoHint), visited |-> m.viz.tbVisited, path |-> m.viz.tbPath,
     selectedItems |-> m.tb.selectedItems, lcsResult |-> m.tb.lcsResult,
     selectedItemsEl |-> m.tb.selectedItemsEl, resultHidden |-> m.tb.resultHidden]

\* the traceback of the monk mode has been clicked to its end
MonkWalkDone == tb.isMonkMode /\ ~tb.cardHidden /\ ~tb.isTracing /\ ~tb.resultHidden

\* C37: driven by correct clicks, the traceback of the monk mode visits the
\* same sequence of cells, writes the same include/exclude or match/move
\* decisions and reports the same result (item set, LCS string) as the
\* animated traceback on the same table and inputs.
C37_MonkWalkIsAnimatedWalk ==
    MonkWalkDone => WalkReport(TBIn(World)) = WalkReport(AnimatedWalk(TBIn(World)))

\* an LCS walk of the monk mode that moved up on a tie and found a letter
C37_MonkWalkWithTie ==
    /\ MonkWalkDone /\ algo = "lcs"
    /\ Len(tb.lcsResult) = 1
    /\ \E k \in DOMAIN tb.log :
           tb.log[k].type = "move-up" /\ tb.log[k].a[3] = tb.log[k].a[4]

\* the hop the walk started by the Traceback button makes when its delay
\* resolves
Hopped == TB_resume([tb |-> tb, viz |-> BeginGrid(viz)], walkers[1])

\* what every hop decreases: i for knapsack, i + j for LCS
Measure(wk) == IF wk.algo = "knapsack" THEN wk.i ELSE wk.i + wk.j

IsDecision(entry) ==
    entry.type \in {"include", "exclude", "match", "move-up", "move-left"}

IsCompletion(entry) == entry.type = "complete"

\* the hops made and the completions reported, as the log tells them
Hops(log) == Len(SelectSeq(log, IsDecision))
Completions(log) == Len(SelectSeq(log, IsCompletion))

\* n for knapsack, m + n for LCS
MostHops == IF algo = "knapsack" THEN Len(fields.weights) ELSE Len(fields.s1) + Len(fields.s2)

\* the walk starts at dp[n][capacity] or dp[m][n]: on the border when there
\* is no item or no capacity, or when one string is empty
StartsAtBorder ==
    IF algo = "knapsack" THEN Len(fields.weights) = 0 \/ fields.capacity = 0
    ELSE Len(fields.s1) = 0 \/ Len(fields.s2) = 0

\* C38: an animated traceback that is started once and not stopped performs
\* at most n hops (knapsack, n items) or m + n hops (LCS), each hop strictly
\* decreasing i (knapsack) or i + j (LCS), and then reports completion
\* exactly once, with the walk at i = 0 or w = 0 (knapsack) or i = 0 or j = 0
\* (LCS).
C38_WalkTerminates ==
    [][/\ op'.name = "start" =>
              /\ Hops(tb'.log) = 0
              /\ Completions(tb'.log) = (IF walkers' = <<>> THEN 1 ELSE 0)
              /\ walkers' = <<>> <=> StartsAtBorder
       /\ op'.name = "hop" =>
              /\ Measure(Hopped.wk) < Measure(walkers[1])
              /\ Hops(tb'.log) = Hops(tb.log) + 1
              /\ Hops(tb'.log) <= MostHops
              /\ Completions(tb.log) = 0
              /\ Completions(tb'.log) = (IF walkers' = <<>> THEN 1 ELSE 0)
              /\ walkers' = <<>> <=> (Hopped.wk.i = 0 \/ Hopped.wk.j = 0)
              /\ Hopped.wk.i >= 0 /\ Hopped.wk.j >= 0]_vars

\* a knapsack walk over three items that took three hops to its completion
C38_ThreeHops ==
    /\ WalkDone("knapsack")
    /\ Len(fields.weights) = 3
    /\ Hops(tb.log) = 3
    /\ Completions(tb.log) = 1

\* the counters of a stats snapshot the panels of the kind of solver show
Counters(kind, stats) ==
    CASE kind = "heap" -> <<stats.heapifyCalls, stats.swapCount, stats.recursiveCalls>>
      [] kind = "countingsort" ->
             <<stats.comparisons, stats.arrayAccesses, stats.countUpdates, stats.placements>>
      [] OTHER -> <<stats.multiplications, stats.additions, stats.maxDepth>>

\* no counter of a step is below the same counter of the step before it
NeverDrops(kind, steps) ==
    \A x \in 2..Len(steps) :
        \A c \in DOMAIN Counters(kind, steps[x].stats) :
            Counters(kind, steps[x].stats)[c] >= Counters(kind, steps[x - 1].stats)[c]

\* C39: along every emitted step sequence each counter of a step's stats
\* snapshot is greater than or equal to the same counter of the preceding
\* step: heapifyCalls, swapCount and recursiveCalls for heap traces,
\* comparisons, array accesses, count updates and placements for counting
\* sort, multiplications, additions and maxDepth for Strassen.
C39_CountersNeverDrop ==
    \A k \in Solved("heap") \cup Solved("countingsort") \cup Solved("strassen") :
        NeverDrops(solvers[k].kind, Result(k).steps)

\* a heap trace in which a recursive call follows a swap and a later call on
\* another node is made at depth 0
C39_RecursionThenRoot ==
    \E k \in Solved("heap") :
        /\ solvers[k].input.operation = "build"
        /\ solvers[k].input.array = <<0, 0, 1, 2>>
        /\ Result(k).steps[1].stats = [heapifyCalls |-> 0, swapCount |-> 0, recursiveCalls |-> 0]
        /\ Result(k).stats = [heapifyCalls |-> 4, swapCount |-> 2, recursiveCalls |-> 2]

RECURSIVE TotalOf(_, _)
\* the sum of the entries of list at the 1-based positions of the set items
TotalOf(list, items) ==
    IF items = {} THEN 0
    ELSE LET x == CHOOSE y \in items : TRUE
         IN list[x] + TotalOf(list, items \ {x})

\* the largest total value of a subset of the first i items, each used at
\* most once, of total weight at most w
BestValue(d, i, w) ==
    LET fits == {items \in SUBSET (1..i) : TotalOf(d.weights, items) <= w}
    IN CHOOSE best \in {TotalOf(d.values, items) : items \in fits} :
           \A items \in fits : TotalOf(d.values, items) <= best

\* capacity >= 0 and lists of non-negative integers of equal length
WellFormedKnapsack(d) ==
    /\ d.capacity \in Nat
    /\ Len(d.weights) = Len(d.values)
    /\ \A x \in DOMAIN d.weights : d.weights[x] \in Nat /\ d.values[x] \in Nat

\* C40: for every knapsack input with capacity >= 0 and equal-length lists of
\* non-negative integer weights and values, every entry dp[i][w] of the table
\* KnapsackSolver.solve() returns is the maximum total value of a subset of
\* the first i items, each used at most once, of total weight at most w.
C40_TableIsOptimal ==
    \A k \in Solved("knapsack") :
        WellFormedKnapsack(solvers[k].input) =>
            \A i \in 0..Len(solvers[k].input.weights), w \in 0..solvers[k].input.capacity :
                Result(k).dp[i][w] = BestValue(solvers[k].input, i, w)

====
